---- MODULE Spec2Model ----
(***************************************************************************)
(* HotReloader: the incremental-rebuild engine.                            *)
(*   pkg/cache      ModuleCache      (fingerprint store)                   *)
(*   pkg/analyzer   DependencyGraph  (reverse-dependency traversal)        *)
(*   pkg/optimizer  Optimizer        (rebuild pipeline, process supervisor)*)
(*   pkg/plugin     PluginManager    (build backend selection)             *)
(*   pkg/dashboard  Dashboard        (event reporter)                      *)
(* Strings are sequences of one-character strings so that filepath.Base,   *)
(* filepath.Ext and strings.Contains are computed, not assumed.            *)
(***************************************************************************)
EXTENDS Integers, Sequences, FiniteSets, TLC

(***************************************************************************)
(* Bounds of the model.                                                    *)
(***************************************************************************)
\* files of the watched project seen by the pipeline specifications
NFiles == 2
\* files of the dependency-graph specification
NGraphFiles == 3
\* longest recorded dependency list drawn for the graph specification
MaxDeps == 2
\* goroutines calling into the optimizer or the cache concurrently
NThreads == 2
\* file contents that can be on disk
NContents == 3
\* writes the environment makes to the watched files (all files together)
MaxWrites == 2
\* calls admitted in one run of a specification
MaxCalls == 3
\* processes the supervisor may start in one run
MaxProcs == 2
\* change events and initial builds admitted in one run of the optimizer
MaxChanges == 2
\* writes the environment makes while the optimizer runs
MaxEdits == 1

\* ticks of the ticker served by the loop of the watcher
MaxTicks == 1
\* values GetStats returns in one run
MaxSnaps == 2
\* the durations a rebuild of a module may take
MaxDuration == 2
\* events handed to the dashboard in one run of the dashboard specification
MaxArrivals == 53
\* cache hits among them
MaxDashHits == 1

(***************************************************************************)
(* Paths and dependency identifiers.                                       *)
(***************************************************************************)
FileList == <<"U", "M", "D", "T">>

\* the absolute path the watcher reports for each file
PathName(f) ==
    CASE f = "U" -> <<"/", "u", ".", "j", "s">>
      [] f = "M" -> <<"/", "m", ".", "j", "s">>
      [] f = "D" -> <<"/", "d", "/", "u", ".", "j", "s">>
      [] OTHER   -> <<"/", "n", ".", "t", "x", "t">>

Idents == {"iu", "im", "ix"}

\* the raw import strings the scanner can return: './u.js', '/m.js' (the very
\* path of m.js) and './u.jsx'
IdentName(d) ==
    CASE d = "iu" -> <<".", "/", "u", ".", "j", "s">>
      [] d = "im" -> <<"/", "m", ".", "j", "s">>
      [] OTHER    -> <<".", "/", "u", ".", "j", "s", "x">>

Range(s) == {s[i] : i \in 1..Len(s)}

\* all orders in which Go may iterate over a map with key set S
RECURSIVE Perms(_)
Perms(S) ==
    IF S = {} THEN {<<>>}
    ELSE UNION {{<<x>> \o p : p \in Perms(S \ {x})} : x \in S}

\* strings.Contains(s, sub)
Contains(s, sub) ==
    \E i \in 0..(Len(s) - Len(sub)) :
        \A j \in 1..Len(sub) : s[i + j] = sub[j]

\* filepath.Base: trailing separators are stripped, the last element is kept
RECURSIVE StripSlashes(_)
StripSlashes(p) ==
    IF Len(p) > 0 /\ p[Len(p)] = "/" THEN StripSlashes(SubSeq(p, 1, Len(p) - 1))
    ELSE p

LastSlash(p) ==
    LET S == {i \in 1..Len(p) : p[i] = "/"}
    IN IF S = {} THEN 0 ELSE CHOOSE i \in S : \A j \in S : j <= i

Base(path) ==
    IF path = <<>> THEN <<".">>
    ELSE LET p == StripSlashes(path)
         IN IF p = <<>> THEN <<"/">>
            ELSE SubSeq(p, LastSlash(p) + 1, Len(p))

\* filepath.Ext: the suffix from the last dot of the last element
Ext(path) ==
    LET k == LastSlash(path)
        S == {i \in (k + 1)..Len(path) : path[i] = "."}
    IN IF S = {} THEN <<>>
       ELSE SubSeq(path, CHOOSE i \in S : \A j \in S : j <= i, Len(path))

(***************************************************************************)
(* pkg/analyzer: DependencyGraph.                                          *)
(***************************************************************************)
VARIABLES graph, gStart, gStack, gVisited, gAffected

gvars == <<gStart, gStack, gVisited, gAffected>>

\* the test of GetDependents on one recorded identifier
DepMatches(dep, file) ==
    Contains(IdentName(dep), Base(PathName(file))) \/ IdentName(dep) = PathName(file)

\* DepMatches, computed once for every identifier and file
MatchTable ==
    [d \in Idents |-> {f \in Range(FileList) : DepMatches(d, f)}]

\* the files GetDependents appends (each recorded file once: the inner loop breaks)
DependentsOf(g, file) ==
    {f \in DOMAIN g : \E i \in 1..Len(g[f]) : file \in MatchTable[g[f][i]]}

\* GetDependents: the slice, in any order the map iteration can produce
GetDependents(g, file) == Perms(DependentsOf(g, file))

BreakIgnored(deps, i) == i + 1

\* break: the loop over the identifiers of one file is left
Break(deps, i) == Len(deps) + 1

\* the inner loop of GetDependents over the identifiers of f, from the i-th on
RECURSIVE ScanDeps(_, _, _, _, _)
ScanDeps(dependents, f, deps, i, file) ==
    IF i > Len(deps) THEN dependents
    ELSE IF DepMatches(deps[i], file)
         THEN ScanDeps(Append(dependents, f), f, deps, Break(deps, i), file)
         ELSE ScanDeps(dependents, f, deps, i + 1, file)

\* the outer loop of GetDependents over the keys of the map, taken in order
RECURSIVE ScanGraph(_, _, _, _)
ScanGraph(dependents, g, order, file) ==
    IF order = <<>> THEN dependents
    ELSE ScanGraph(ScanDeps(dependents, Head(order), g[Head(order)], 1, file),
                   g, Tail(order), file)

\* GetDependents run as the two loops, for every iteration order of the map
GetDependentsByLoops(g, file) ==
    {ScanGraph(<<>>, g, order, file) : order \in Perms(DOMAIN g)}

\* AddDependency
AddDependency(g, file, deps) ==
    [f \in DOMAIN g \cup {file} |-> IF f = file THEN deps ELSE g[f]]

\* GetAllAffectedFiles: every slice the traversal can return
RECURSIVE Traverse(_, _, _), TraverseEach(_, _, _)
Traverse(g, f, acc) ==
    IF f \in Range(acc) THEN {acc}
    ELSE UNION {TraverseEach(g, ds, Append(acc, f)) : ds \in GetDependents(g, f)}

TraverseEach(g, ds, acc) ==
    IF ds = <<>> THEN {acc}
    ELSE UNION {TraverseEach(g, Tail(ds), a) : a \in Traverse(g, Head(ds), acc)}

GetAllAffectedFiles(g, file) == Traverse(g, file, <<>>)

(***************************************************************************)
(* The traversal of GetAllAffectedFiles, one call frame at a time.         *)
(* gStack is the call stack of traverse: a frame is entered ("enter"),     *)
(* then ranges over the dependents it fetched ("loop").                    *)
(***************************************************************************)
GraphFiles == {FileList[i] : i \in 1..NGraphFiles}

\* the dependency lists a file may have recorded: identifiers without repetition
DepLists == UNION {Perms(S) : S \in {T \in SUBSET Idents : Cardinality(T) <= MaxDeps}}

VisitedNever(f) == FALSE

\* visited[f] of the closure
Visited(f) == f \in gVisited

\* traverse(f): lines 132-136, then the evaluation of g.GetDependents(f)
GEnter ==
    /\ gStack # <<>>
    /\ gStack[Len(gStack)].st = "enter"
    /\ LET top == gStack[Len(gStack)]
           rest == SubSeq(gStack, 1, Len(gStack) - 1)
       IN IF Visited(top.f)
          THEN /\ gStack' = rest
               /\ UNCHANGED <<gVisited, gAffected>>
          ELSE /\ gVisited' = gVisited \cup {top.f}
               /\ gAffected' = Append(gAffected, top.f)
               /\ \E ds \in GetDependents(graph, top.f) :
                      gStack' = Append(rest, [f |-> top.f, st |-> "loop", ds |-> ds])
    /\ UNCHANGED <<graph, gStart>>

\* one iteration of the range loop of traverse: lines 138-140
GLoop ==
    /\ gStack # <<>>
    /\ gStack[Len(gStack)].st = "loop"
    /\ LET top == gStack[Len(gStack)]
           rest == SubSeq(gStack, 1, Len(gStack) - 1)
       IN IF top.ds = <<>>
          THEN gStack' = rest
          ELSE gStack' = rest \o <<[top EXCEPT !.ds = Tail(top.ds)],
                                   [f |-> Head(top.ds), st |-> "enter", ds |-> <<>>]>>
    /\ UNCHANGED <<graph, gStart, gVisited, gAffected>>

GDone == gStack = <<>>

(***************************************************************************)
(* State.                                                                  *)
(*   fs          the watched files: exists, content (the bytes), mtime;    *)
(*               ver counts the writes to the file (history)               *)
(*   entries     ModuleCache.entries                                       *)
(*   mu          Optimizer.mu: 0, or the goroutine holding it             *)
(*   stats       Optimizer.stats (BuildStats)                              *)
(*   dash        Optimizer.dashboard                                       *)
(*   active      PluginManager.active: "none" for nil, else Name()         *)
(*   interruptSupported  whether Process.Signal(os.Interrupt) is           *)
(*               implemented on the platform of the build                  *)
(*   processMu, currentProcess   the supervisor's lock and tracked handle  *)
(*   procs       the processes started so far, by pid                      *)
(*   helpers     the goroutines spawned to wait for an exit                *)
(*   panicked    a goroutine panicked: the program is gone                 *)
(*   th          per calling goroutine: program counter and locals         *)
(*   calls       calls admitted so far (history)                           *)
(*   nBuilds     calls of the build backend so far (history)               *)
(*   lastInval   per file: the path whose pipeline last removed its        *)
(*               fingerprint, and how that pipeline's build went (history) *)
(*   lastBuild   the arguments and outcome of the last backend call        *)
(*   built       per file: the bytes the backend read at the last          *)
(*               successful build made for a change of that file (history) *)
(*   watch       the goroutine of main and Watcher.Start: where it is      *)
(*               (pc), whether a signal waits in sigChan (sig), the ticks  *)
(*               served, and the reports printed so far (out, history)     *)
(*   snaps       the BuildStats values GetStats has returned, as their     *)
(*               holders see them now; got is what each held when it was   *)
(*               returned or last written by its holder (history)          *)
(*   copies      the maps made by GetStats; a snapshot refers to its map   *)
(*               by index, 0 being the map of the ledger itself            *)
(*   arrived     the events handed to the dashboard, in the order of       *)
(*               their arrival (history)                                   *)
(*   aborted     the pipelines that returned an error after they had       *)
(*               counted a miss (history)                                  *)
(*   summary     the events listed by the last PrintSummary, in the order  *)
(*               they were printed                                         *)
(***************************************************************************)
VARIABLES fs, entries, mu, stats, dash, active, interruptSupported,
          processMu, currentProcess, procs, helpers, panicked,
          th, calls, nBuilds, lastInval, lastBuild, built,
          watch, snaps, copies, arrived, aborted, summary

vars == <<graph, gStart, gStack, gVisited, gAffected,
          fs, entries, mu, stats, dash, active, interruptSupported,
          processMu, currentProcess, procs, helpers, panicked,
          th, calls, nBuilds, lastInval, lastBuild, built,
          watch, snaps, copies, arrived, aborted, summary>>

\* what no step of the cache, the supervisor or the coordinator writes: the
\* configuration, and the state of their callers
cfgVars == <<active, interruptSupported, watch, summary, snaps, copies, summary>>
procVars == <<processMu, currentProcess, procs, helpers, panicked>>
coordVars == <<graph, mu, stats, dash, nBuilds, lastInval, lastBuild, built, arrived,
              aborted>>

Files == {FileList[i] : i \in 1..NFiles}
Threads == 1..NThreads
Contents == 1..NContents

(***************************************************************************)
(* The file system under the watched root.                                 *)
(***************************************************************************)
\* the import strings in a file's bytes (what the regexp scan extracts)
ImportsOf(c) ==
    CASE c = 1 -> {}
      [] c = 2 -> {"iu"}
      [] c = 3 -> {"im"}
      [] c = 4 -> {"iu", "im"}
      [] OTHER -> {"ix"}

\* info.Size(): contents 2 and 3 differ in bytes and agree in size
SizeOf(c) == IF c = 1 THEN 10 ELSE 20

\* the SHA-256 digest of the bytes, hex encoded: distinct bytes, distinct digests
HashOf(c) == <<"sha256", c>>

TotalWrites == LET RECURSIVE Sum(_)
                   Sum(S) == IF S = {} THEN 0
                             ELSE LET f == CHOOSE x \in S : TRUE
                                  IN fs[f].ver + Sum(S \ {f})
               IN Sum(Files)

\* a write to an existing file: new bytes, or the same bytes with a new mtime;
\* a write within the clock's resolution leaves the mtime as it was
FsWrite(f) ==
    /\ fs[f].exists
    /\ TotalWrites < MaxWrites
    /\ \E c \in Contents, m \in {fs[f].mtime, fs[f].mtime + 1} :
          /\ c # fs[f].content \/ m # fs[f].mtime
          /\ fs' = [fs EXCEPT ![f] = [@ EXCEPT !.content = c, !.mtime = m,
                                              !.ver = @ + 1]]
    /\ UNCHANGED <<gvars, entries, cfgVars, procVars, coordVars, th, calls>>

FsRemove(f) ==
    /\ fs[f].exists
    /\ TotalWrites < MaxWrites
    /\ fs' = [fs EXCEPT ![f] = [@ EXCEPT !.exists = FALSE, !.ver = @ + 1]]
    /\ UNCHANGED <<gvars, entries, cfgVars, procVars, coordVars, th, calls>>

FsCreate(f) ==
    /\ ~fs[f].exists
    /\ TotalWrites < MaxWrites
    /\ \E c \in Contents :
          fs' = [fs EXCEPT ![f] = [exists |-> TRUE, content |-> c,
                                   mtime |-> @.mtime + 1, ver |-> @.ver + 1]]
    /\ UNCHANGED <<gvars, entries, cfgVars, procVars, coordVars, th, calls>>

(***************************************************************************)
(* pkg/cache: ModuleCache.                                                 *)
(***************************************************************************)
NoEntry == [Hash |-> <<>>, LastModified |-> -1, Size |-> -1,
            Dependencies |-> <<>>, ver |-> -1]

NoInfo == [mtime |-> -1, size |-> -1, ver |-> -1]

\* os.Stat(path) succeeds; os.Open(path) succeeds
StatOk(f) == fs[f].exists

\* info.ModTime(), info.Size() and the write count at the time of the stat
StatInfo(f) == [mtime |-> fs[f].mtime, size |-> SizeOf(fs[f].content), ver |-> fs[f].ver]

ComputeFileHash(f) == HashOf(fs[f].content)

\* IsValid line 69, negated: the stat agrees with the stored entry
MetaMatches(f, e) == fs[f].mtime = e.LastModified /\ SizeOf(fs[f].content) = e.Size

HashMatchesSkipped(f, e) == TRUE

\* IsValid line 79
HashMatches(f, e) == ComputeFileHash(f) = e.Hash

\* the CacheEntry UpdateCache builds; ver is the write count the stat saw (history)
NewEntry(hash, info, deps) ==
    [Hash |-> hash, LastModified |-> info.mtime, Size |-> info.size,
     Dependencies |-> deps, ver |-> info.ver]

CacheSetDropped(es, f, e) == es

\* Set
CacheSet(es, f, e) == [g \in DOMAIN es \cup {f} |-> IF g = f THEN e ELSE es[g]]

\* Invalidate: delete(c.entries, path)
CacheInvalidate(es, f) == [g \in DOMAIN es \ {f} |-> es[g]]

CacheInvalidateAll(es, S) == [g \in DOMAIN es \ S |-> es[g]]

IdleThread ==
    [pc |-> "idle", op |-> "none", path |-> "U", ent |-> NoEntry, info |-> NoInfo,
     valid |-> FALSE, ioerr |-> FALSE, deps |-> <<>>, affected |-> <<>>,
     result |-> "none", helper |-> 0, branch |-> "none", killed |-> FALSE,
     rerr |-> FALSE]

\* where a goroutine continues when IsValid, UpdateCache return to their caller
AfterIsValid(t) == IF th[t].op = "pfc" THEN "pfc_decide" ELSE "ret"
AfterUpdateCache(t) == IF th[t].op = "pfc" THEN "pfc_finish" ELSE "ret"

\* IsValid: c.Get(path)
IvGet(t) ==
    /\ th[t].pc = "iv_get"
    /\ IF th[t].path \notin DOMAIN entries
       THEN th' = [th EXCEPT ![t] = [@ EXCEPT !.valid = FALSE, !.ioerr = FALSE,
                                              !.ent = NoEntry, !.pc = AfterIsValid(t)]]
       ELSE th' = [th EXCEPT ![t] = [@ EXCEPT !.ent = entries[th[t].path],
                                              !.pc = "iv_stat"]]
    /\ UNCHANGED <<gvars, fs, entries, cfgVars, procVars, coordVars, calls>>

\* IsValid: os.Stat and the comparison of modification time and size
IvStat(t) ==
    /\ th[t].pc = "iv_stat"
    /\ LET f == th[t].path
       IN IF ~StatOk(f)
          THEN th' = [th EXCEPT ![t] = [@ EXCEPT !.valid = FALSE, !.ioerr = TRUE,
                                                 !.pc = AfterIsValid(t)]]
          ELSE IF ~MetaMatches(f, th[t].ent)
          THEN th' = [th EXCEPT ![t] = [@ EXCEPT !.valid = FALSE, !.ioerr = FALSE,
                                                 !.pc = AfterIsValid(t)]]
          ELSE th' = [th EXCEPT ![t] = [@ EXCEPT !.pc = "iv_hash"]]
    /\ UNCHANGED <<gvars, fs, entries, cfgVars, procVars, coordVars, calls>>

\* IsValid: ComputeFileHash and the comparison with the stored hash
IvHash(t) ==
    /\ th[t].pc = "iv_hash"
    /\ LET f == th[t].path
       IN IF ~StatOk(f)
          THEN th' = [th EXCEPT ![t] = [@ EXCEPT !.valid = FALSE, !.ioerr = TRUE,
                                                 !.pc = AfterIsValid(t)]]
          ELSE th' = [th EXCEPT ![t] = [@ EXCEPT !.valid = HashMatches(f, th[t].ent),
                                                 !.ioerr = FALSE,
                                                 !.pc = AfterIsValid(t)]]
    /\ UNCHANGED <<gvars, fs, entries, cfgVars, procVars, coordVars, calls>>

\* UpdateCache: os.Stat
UcStat(t) ==
    /\ th[t].pc = "uc_stat"
    /\ LET f == th[t].path
       IN IF ~StatOk(f)
          THEN th' = [th EXCEPT ![t] = [@ EXCEPT !.ioerr = TRUE,
                                                 !.pc = AfterUpdateCache(t)]]
          ELSE th' = [th EXCEPT ![t] = [@ EXCEPT !.info = StatInfo(f), !.pc = "uc_hash"]]
    /\ UNCHANGED <<gvars, fs, entries, cfgVars, procVars, coordVars, calls>>

\* UpdateCache: ComputeFileHash, then c.Set(path, entry)
UcHash(t) ==
    /\ th[t].pc = "uc_hash"
    /\ LET f == th[t].path
       IN IF ~StatOk(f)
          THEN /\ th' = [th EXCEPT ![t] = [@ EXCEPT !.ioerr = TRUE,
                                                    !.pc = AfterUpdateCache(t)]]
               /\ UNCHANGED entries
          ELSE /\ entries' = CacheSet(entries, f,
                                 NewEntry(ComputeFileHash(f), th[t].info, th[t].deps))
               /\ th' = [th EXCEPT ![t] = [@ EXCEPT !.ioerr = FALSE,
                                                    !.pc = AfterUpdateCache(t)]]
    /\ UNCHANGED <<gvars, fs, cfgVars, procVars, coordVars, calls>>

(***************************************************************************)
(* Direct callers of the cache (the exported methods of ModuleCache).      *)
(***************************************************************************)
CallIsValid(t, f) ==
    /\ th[t].pc = "idle"
    /\ calls < MaxCalls
    /\ calls' = calls + 1
    /\ th' = [th EXCEPT ![t] = [IdleThread EXCEPT !.pc = "iv_get", !.op = "isvalid",
                                                  !.path = f]]
    /\ UNCHANGED <<gvars, fs, entries, cfgVars, procVars, coordVars>>

CallUpdateCache(t, f, ds) ==
    /\ th[t].pc = "idle"
    /\ calls < MaxCalls
    /\ calls' = calls + 1
    /\ th' = [th EXCEPT ![t] = [IdleThread EXCEPT !.pc = "uc_stat", !.op = "update",
                                                  !.path = f, !.deps = ds]]
    /\ UNCHANGED <<gvars, fs, entries, cfgVars, procVars, coordVars>>

CallInvalidate(t, f) ==
    /\ th[t].pc = "idle"
    /\ calls < MaxCalls
    /\ calls' = calls + 1
    /\ entries' = CacheInvalidate(entries, f)
    /\ UNCHANGED <<gvars, fs, cfgVars, procVars, coordVars, th>>

\* the call returns to its caller
Return(t) ==
    /\ th[t].pc = "ret"
    /\ th' = [th EXCEPT ![t] = IdleThread]
    /\ UNCHANGED <<gvars, fs, entries, cfgVars, procVars, coordVars, calls>>

(***************************************************************************)
(* pkg/optimizer: the process supervisor (restartProcess, Shutdown).       *)
(* A process is "running", then "zombie" (exited, not yet waited for),     *)
(* then "reaped" (a Wait collected it); sig is the last signal sent to it. *)
(* A helper is the goroutine spawned to send o.currentProcess.Wait() on    *)
(* the channel done: "start" before it read o.currentProcess, "wait"       *)
(* inside Wait, "send" blocked on the unbuffered channel, "done" once      *)
(* received from, "panic" when the handle it read was nil. Its target is  *)
(* the process that was being stopped when it was spawned (history).       *)
(***************************************************************************)
Pids == 1..Len(procs)

Alive == {p \in Pids : procs[p].st = "running"}

ProcessMuIgnored == TRUE

\* processMu.Lock() can return
ProcessMuFree == processMu = 0

\* Process.Signal(os.Interrupt) returns an error: the process was already waited
\* for, or the platform does not implement the signal
SignalFails(p) == procs[p].st = "reaped" \/ ~interruptSupported

\* where the caller of restartProcess / Shutdown continues
AfterRestart(t) ==
    CASE th[t].op = "pfc" -> "uc_stat"
      [] OTHER            -> "ret"

KillAfterGraceful(t) == "rp_kill"

\* after the old process was seen to stop: Shutdown clears the handle,
\* restartProcess starts the new instance
AfterStopped(t) == IF th[t].op = "shutdown" THEN "sd_clear" ELSE "rp_start"

\* case <-done: nothing but the message is done before the stop is over
AfterGraceful(t) == AfterStopped(t)

\* o.processMu.Lock()
RpLock(t) ==
    /\ th[t].pc = "rp_lock"
    /\ ProcessMuFree
    /\ processMu' = t
    /\ th' = [th EXCEPT ![t] = [@ EXCEPT !.pc = "rp_check"]]
    /\ UNCHANGED <<gvars, fs, entries, cfgVars, coordVars, calls,
                   currentProcess, procs, helpers, panicked>>

\* if o.currentProcess != nil: Signal(os.Interrupt); on success make the channel
\* and spawn the helper, on failure go to the kill of the else branch
RpCheck(t) ==
    /\ th[t].pc = "rp_check"
    /\ IF currentProcess = 0
       THEN /\ th' = [th EXCEPT ![t] = [@ EXCEPT !.pc =
                        IF th[t].op = "shutdown" THEN "rp_unlock" ELSE "rp_start"]]
            /\ UNCHANGED <<procs, helpers>>
       ELSE IF SignalFails(currentProcess)
       THEN /\ th' = [th EXCEPT ![t] = [@ EXCEPT !.branch = "sigerr", !.pc = "rp_kill"]]
            /\ UNCHANGED <<procs, helpers>>
       ELSE /\ procs' = [procs EXCEPT ![currentProcess] = [@ EXCEPT !.sig = "int"]]
            /\ helpers' = Append(helpers, [pc |-> "start", owner |-> t, proc |-> 0,
                                          target |-> currentProcess])
            /\ th' = [th EXCEPT ![t] = [@ EXCEPT !.helper = Len(helpers) + 1,
                                                 !.branch = "waiting",
                                                 !.pc = "rp_select"]]
    /\ UNCHANGED <<gvars, fs, entries, cfgVars, coordVars, calls,
                   processMu, currentProcess, panicked>>

\* select, case <-done: the helper's send and this receive meet
RpSelectDone(t) ==
    /\ th[t].pc = "rp_select"
    /\ helpers[th[t].helper].pc = "send"
    /\ helpers' = [helpers EXCEPT ![th[t].helper] = [@ EXCEPT !.pc = "done"]]
    /\ th' = [th EXCEPT ![t] = [@ EXCEPT !.branch = "graceful", !.pc = AfterGraceful(t)]]
    /\ UNCHANGED <<gvars, fs, entries, cfgVars, coordVars, calls,
                   processMu, currentProcess, procs, panicked>>

\* select, case <-time.After(2 * time.Second): the grace period is over
RpSelectTimeout(t) ==
    /\ th[t].pc = "rp_select"
    /\ th' = [th EXCEPT ![t] = [@ EXCEPT !.branch = "timeout", !.pc = "rp_kill"]]
    /\ UNCHANGED <<gvars, fs, entries, cfgVars, coordVars, calls, procVars>>

\* o.currentProcess.Process.Kill(): SIGKILL unless the process was already waited for
RpKill(t) ==
    /\ th[t].pc = "rp_kill"
    /\ procs' = [procs EXCEPT ![currentProcess] =
                    IF @.st = "reaped" THEN @ ELSE [@ EXCEPT !.sig = "kill"]]
    /\ th' = [th EXCEPT ![t] = [@ EXCEPT !.killed = TRUE, !.pc = "rp_wait"]]
    /\ UNCHANGED <<gvars, fs, entries, cfgVars, coordVars, calls,
                   processMu, currentProcess, helpers, panicked>>

ExitedAlways(p) == TRUE

\* cmd.Wait() on p can return: it blocks until the process has exited
Exited(p) == procs[p].st # "running"

\* o.currentProcess.Wait(): returns once the process has exited
RpWait(t) ==
    /\ th[t].pc = "rp_wait"
    /\ Exited(currentProcess)
    /\ procs' = [procs EXCEPT ![currentProcess] = [@ EXCEPT !.st = "reaped"]]
    /\ th' = [th EXCEPT ![t] = [@ EXCEPT !.pc = AfterStopped(t)]]
    /\ UNCHANGED <<gvars, fs, entries, cfgVars, coordVars, calls,
                   processMu, currentProcess, helpers, panicked>>

\* cmd.Start() succeeds; o.currentProcess = cmd
RpStartOk(t) ==
    /\ th[t].pc = "rp_start"
    /\ Len(procs) < MaxProcs
    /\ procs' = Append(procs, [st |-> "running", sig |-> "none"])
    /\ currentProcess' = Len(procs) + 1
    /\ th' = [th EXCEPT ![t] = [@ EXCEPT !.rerr = FALSE, !.pc = "rp_unlock"]]
    /\ UNCHANGED <<gvars, fs, entries, cfgVars, coordVars, calls,
                   processMu, helpers, panicked>>

\* cmd.Start() fails: the error is returned, o.currentProcess keeps the old handle
RpStartFail(t) ==
    /\ th[t].pc = "rp_start"
    /\ th' = [th EXCEPT ![t] = [@ EXCEPT !.rerr = TRUE, !.pc = "rp_unlock"]]
    /\ UNCHANGED <<gvars, fs, entries, cfgVars, coordVars, calls, procVars>>

\* Shutdown: o.currentProcess = nil
SdClear(t) ==
    /\ th[t].pc = "sd_clear"
    /\ currentProcess' = 0
    /\ th' = [th EXCEPT ![t] = [@ EXCEPT !.pc = "rp_unlock"]]
    /\ UNCHANGED <<gvars, fs, entries, cfgVars, coordVars, calls,
                   processMu, procs, helpers, panicked>>

\* defer o.processMu.Unlock(), and the return; InitialBuild returns the error of
\* restartProcess, ProcessFileChange prints it and goes on
RpUnlock(t) ==
    /\ th[t].pc = "rp_unlock"
    /\ processMu' = 0
    /\ th' = [th EXCEPT ![t] = [@ EXCEPT
                 !.pc = AfterRestart(t),
                 !.result = IF th[t].op = "ib" /\ th[t].rerr THEN "err_start" ELSE @]]
    /\ UNCHANGED <<gvars, fs, entries, cfgVars, coordVars, calls,
                   currentProcess, procs, helpers, panicked>>

\* the helper evaluates o.currentProcess (without the lock): a nil handle makes
\* Wait dereference nil and the program panics
HRead(h) ==
    /\ helpers[h].pc = "start"
    /\ IF currentProcess = 0
       THEN /\ panicked' = TRUE
            /\ helpers' = [helpers EXCEPT ![h] = [@ EXCEPT !.pc = "panic"]]
       ELSE /\ helpers' = [helpers EXCEPT ![h] = [@ EXCEPT !.pc = "wait",
                                                          !.proc = currentProcess]]
            /\ UNCHANGED panicked
    /\ UNCHANGED <<gvars, fs, entries, cfgVars, coordVars, calls, th,
                   processMu, currentProcess, procs>>

\* the helper's Wait returns once the process it waits on has exited
HWait(h) ==
    /\ helpers[h].pc = "wait"
    /\ Exited(helpers[h].proc)
    /\ procs' = [procs EXCEPT ![helpers[h].proc] = [@ EXCEPT !.st = "reaped"]]
    /\ helpers' = [helpers EXCEPT ![h] = [@ EXCEPT !.pc = "send"]]
    /\ UNCHANGED <<gvars, fs, entries, cfgVars, coordVars, calls, th,
                   processMu, currentProcess, panicked>>

\* the supervised program exits: by itself, on the interrupt, or killed
ProcExit(p) ==
    /\ procs[p].st = "running"
    /\ procs' = [procs EXCEPT ![p] = [@ EXCEPT !.st = "zombie"]]
    /\ UNCHANGED <<gvars, fs, entries, cfgVars, coordVars, calls, th,
                   processMu, currentProcess, helpers, panicked>>

\* a goroutine calls restartProcess (as InitialBuild and ProcessFileChange do)
CallRestart(t) ==
    /\ th[t].pc = "idle"
    /\ th' = [th EXCEPT ![t] = [IdleThread EXCEPT !.pc = "rp_lock", !.op = "restart"]]
    /\ UNCHANGED <<gvars, fs, entries, cfgVars, coordVars, calls, procVars>>

\* a goroutine calls Shutdown
CallShutdown(t) ==
    /\ th[t].pc = "idle"
    /\ th' = [th EXCEPT ![t] = [IdleThread EXCEPT !.pc = "rp_lock", !.op = "shutdown"]]
    /\ UNCHANGED <<gvars, fs, entries, cfgVars, coordVars, calls, procVars>>

(***************************************************************************)
(* pkg/plugin: PluginManager; pkg/dashboard: Dashboard.                    *)
(***************************************************************************)
\* the plugins in the order NewOptimizer registers them
Plugins == <<"go", "webpack", "vite">>

\* DetectAndActivate over the plugins whose Detect() answers true: the first
\* registered one is activated, "none" stands for the nil left when it fails
DetectAndActivate(detected) ==
    LET S == {i \in 1..Len(Plugins) : Plugins[i] \in detected}
    IN IF S = {} THEN "none" ELSE Plugins[CHOOSE i \in S : \A j \in S : i <= j]

HasActivePluginAlways == TRUE

\* o.pluginMgr.GetActivePlugin() != nil
HasActivePlugin == active # "none"

RestartsAlways == TRUE

\* o.pluginMgr.GetActivePlugin().Name() == "go"
RestartsProcess == active = "go"

maxEvents == 50

\* the events PrintSummary lists at most
summaryEvents == 10

\* the Event value UpdateRebuild makes
NewRebuildEvent(f, affectedCount) ==
    [FilePath |-> f, AffectedCount |-> affectedCount, EventType |-> "RebuildEvent"]

\* the Event value UpdateCacheHit makes
NewCacheHitEvent(f) ==
    [FilePath |-> f, AffectedCount |-> 0, EventType |-> "CacheHitEvent"]

KeepFirst(evs) ==
    IF Len(evs) > maxEvents THEN SubSeq(evs, 1, maxEvents) ELSE evs

\* the trimming of d.events to the last maxEvents
KeepLast(evs) ==
    IF Len(evs) > maxEvents THEN SubSeq(evs, Len(evs) - maxEvents + 1, Len(evs)) ELSE evs

UpdateRebuildUncounted(d, f, affectedCount) ==
    [d EXCEPT !.events = KeepLast(Append(@, NewRebuildEvent(f, affectedCount))),
              !.totalAffected = @ + affectedCount]

UpdateRebuild(d, f, affectedCount) ==
    [d EXCEPT !.events = KeepLast(Append(@, [FilePath |-> f,
                                             AffectedCount |-> affectedCount,
                                             EventType |-> "RebuildEvent"])),
              !.totalRebuilds = @ + 1,
              !.totalAffected = @ + affectedCount]

\* a hit recorded as if it were a rebuild
UpdateCacheHitAsRebuild(d, f) == UpdateRebuild(d, f, 0)

UpdateCacheHit(d, f) ==
    [d EXCEPT !.events = KeepLast(Append(@, [FilePath |-> f, AffectedCount |-> 0,
                                             EventType |-> "CacheHitEvent"])),
              !.totalCacheHits = @ + 1]

\* PrintSummary: the events it lists under "Recent Events", newest first;
\* before any event it prints "No events yet" and returns
PrintSummary(d) ==
    IF d.totalRebuilds = 0 /\ d.totalCacheHits = 0 THEN <<>>
    ELSE LET recentEvents ==
                 IF Len(d.events) > summaryEvents
                 THEN SubSeq(d.events, Len(d.events) - summaryEvents + 1, Len(d.events))
                 ELSE d.events
         IN [i \in 1..Len(recentEvents) |-> recentEvents[Len(recentEvents) + 1 - i]]

(***************************************************************************)
(* pkg/analyzer: DependencyAnalyzer.                                       *)
(***************************************************************************)
\* the keys of importPatterns
SupportedExts ==
    {<<".", "g", "o">>, <<".", "j", "s">>, <<".", "t", "s">>,
     <<".", "j", "s", "x">>, <<".", "t", "s", "x">>, <<".", "p", "y">>}

\* AnalyzeDependencies returns an error: the file has a scanned extension and
\* cannot be opened
AnalyzeFails(f) == Ext(PathName(f)) \in SupportedExts /\ ~StatOk(f)

\* AnalyzeDependencies: the slices it can return (the map of found strings is
\* ranged over in any order); a file of another extension is not opened
AnalyzeDependencies(f) ==
    IF Ext(PathName(f)) \notin SupportedExts THEN {<<>>}
    ELSE Perms(ImportsOf(fs[f].content))

(***************************************************************************)
(* pkg/optimizer: ProcessFileChange and InitialBuild.                      *)
(* A return releases o.mu (the deferred Unlock) in the same step.          *)
(***************************************************************************)
MuIgnored == TRUE

\* o.mu.Lock() can return
MuFree == mu = 0

AfterBuildIgnoringFailure(t, ok) ==
    IF RestartsProcess THEN "rp_lock" ELSE "uc_stat"

\* where ProcessFileChange continues after pluginMgr.Build returned
AfterBuild(t, ok) ==
    IF ~ok THEN "ret"
    ELSE IF RestartsProcess THEN "rp_lock" ELSE "uc_stat"

\* the watcher (or any caller) delivers a change event for f
CallPFC(t, f) ==
    /\ th[t].pc = "idle"
    /\ calls < MaxCalls
    /\ calls' = calls + 1
    /\ th' = [th EXCEPT ![t] = [IdleThread EXCEPT !.pc = "pfc_lock", !.op = "pfc",
                                                  !.path = f]]
    /\ UNCHANGED <<gvars, fs, entries, cfgVars, procVars, coordVars>>

\* o.mu.Lock()
PfcLock(t) ==
    /\ th[t].pc = "pfc_lock"
    /\ MuFree
    /\ mu' = t
    /\ th' = [th EXCEPT ![t] = [@ EXCEPT !.pc = "iv_get"]]
    /\ UNCHANGED <<gvars, fs, entries, cfgVars, procVars, calls,
                   graph, stats, dash, nBuilds, lastInval, lastBuild, built, arrived,
                   aborted>>

CheckErrIgnored(t) == FALSE

\* line 228: err != nil after o.cache.IsValid(filePath)
CheckErr(t) == th[t].ioerr

\* lines 228-244: the error return, the cache hit, or the counting of a miss
PfcDecide(t) ==
    /\ th[t].pc = "pfc_decide"
    /\ IF CheckErr(t)
       THEN /\ th' = [th EXCEPT ![t] = [@ EXCEPT !.result = "err_cache", !.pc = "ret"]]
            /\ mu' = 0
            /\ UNCHANGED <<stats, dash, arrived>>
       ELSE IF th[t].valid
       THEN /\ stats' = [stats EXCEPT !.CacheHits = @ + 1]
            /\ dash' = UpdateCacheHit(dash, th[t].path)
            /\ arrived' = Append(arrived, NewCacheHitEvent(th[t].path))
            /\ th' = [th EXCEPT ![t] = [@ EXCEPT !.result = "hit", !.pc = "ret"]]
            /\ mu' = 0
       ELSE /\ stats' = [stats EXCEPT !.CacheMisses = @ + 1, !.TotalRebuilds = @ + 1]
            /\ th' = [th EXCEPT ![t] = [@ EXCEPT !.pc = "pfc_analyze"]]
            /\ UNCHANGED <<mu, dash, arrived>>
    /\ UNCHANGED <<gvars, fs, entries, cfgVars, procVars, calls,
                   graph, nBuilds, lastInval, lastBuild, built, aborted>>

\* lines 247-262: AnalyzeDependencies, AddDependency, GetAllAffectedFiles and the
\* loop that invalidates every affected file
PfcAnalyze(t) ==
    /\ th[t].pc = "pfc_analyze"
    /\ LET f == th[t].path
       IN IF AnalyzeFails(f)
          THEN /\ th' = [th EXCEPT ![t] = [@ EXCEPT !.result = "err_analyze",
                                                    !.pc = "ret"]]
               /\ mu' = 0
               /\ aborted' = aborted + 1
               /\ UNCHANGED <<graph, entries, lastInval>>
          ELSE \E deps \in AnalyzeDependencies(f) :
               \E aff \in GetAllAffectedFiles(AddDependency(graph, f, deps), f) :
                  /\ graph' = AddDependency(graph, f, deps)
                  /\ entries' = CacheInvalidateAll(entries, Range(aff))
                  /\ lastInval' = [x \in Files |->
                                      IF x \in Range(aff)
                                      THEN [by |-> f, build |-> "pending"]
                                      ELSE lastInval[x]]
                  /\ th' = [th EXCEPT ![t] = [@ EXCEPT !.deps = deps, !.affected = aff,
                                 !.pc = IF HasActivePlugin THEN "pfc_build" ELSE "uc_stat"]]
                  /\ UNCHANGED <<mu, aborted>>
    /\ UNCHANGED <<gvars, fs, cfgVars, procVars, calls,
                   stats, dash, nBuilds, lastBuild, built, arrived>>

\* the bytes of f on disk, 0 when there is no such file
BytesOf(f) == IF fs[f].exists THEN fs[f].content ELSE 0

\* lines 269-272: o.pluginMgr.Build(affectedFiles) runs the backend, which reads
\* the project from disk and succeeds or fails
PfcBuild(t) ==
    /\ th[t].pc = "pfc_build"
    /\ \E ok \in BOOLEAN :
          /\ nBuilds' = nBuilds + 1
          /\ lastBuild' = [path |-> th[t].path, files |-> th[t].affected, ok |-> ok]
          /\ built' = IF ok THEN [built EXCEPT ![th[t].path] = BytesOf(th[t].path)]
                      ELSE built
          /\ lastInval' = [x \in Files |->
                              IF x \in Range(th[t].affected)
                              THEN [by |-> th[t].path,
                                    build |-> IF ok THEN "built" ELSE "failed"]
                              ELSE lastInval[x]]
          /\ th' = [th EXCEPT ![t] = [@ EXCEPT !.pc = AfterBuild(t, ok),
                                               !.result = IF AfterBuild(t, ok) = "ret"
                                                          THEN "err_build" ELSE @]]
          /\ mu' = IF AfterBuild(t, ok) = "ret" THEN 0 ELSE mu
          /\ aborted' = IF AfterBuild(t, ok) = "ret" THEN aborted + 1 ELSE aborted
    /\ UNCHANGED <<gvars, fs, entries, cfgVars, procVars, calls, graph, stats, dash,
                   arrived>>

\* lines 288-302: the error of UpdateCache is returned, or the duration and the
\* rebuild event are recorded
PfcFinish(t) ==
    /\ th[t].pc = "pfc_finish"
    /\ IF th[t].ioerr
       THEN /\ th' = [th EXCEPT ![t] = [@ EXCEPT !.result = "err_update", !.pc = "ret"]]
            /\ aborted' = aborted + 1
            /\ UNCHANGED <<stats, dash, arrived>>
       ELSE /\ stats' = [stats EXCEPT !.LastRebuildTime = 1]
            /\ dash' = UpdateRebuild(dash, th[t].path, Len(th[t].affected))
            /\ arrived' = Append(arrived,
                                 NewRebuildEvent(th[t].path, Len(th[t].affected)))
            /\ th' = [th EXCEPT ![t] = [@ EXCEPT !.result = "ok", !.pc = "ret"]]
            /\ UNCHANGED aborted
    /\ mu' = 0
    /\ UNCHANGED <<gvars, fs, entries, cfgVars, procVars, calls,
                   graph, nBuilds, lastInval, lastBuild, built>>

\* InitialBuild is called: without a plugin it returns at once
CallInitialBuild(t) ==
    /\ th[t].pc = "idle"
    /\ calls < MaxCalls
    /\ calls' = calls + 1
    /\ th' = [th EXCEPT ![t] =
                 IF HasActivePlugin
                 THEN [IdleThread EXCEPT !.pc = "ib_build", !.op = "ib"]
                 ELSE [IdleThread EXCEPT !.pc = "ret", !.op = "ib", !.result = "ok"]]
    /\ UNCHANGED <<gvars, fs, entries, cfgVars, procVars, coordVars>>

\* InitialBuild: o.pluginMgr.Build([]string{}), then the start of the program
\* when the plugin is the Go one
IbBuild(t) ==
    /\ th[t].pc = "ib_build"
    /\ \E ok \in BOOLEAN :
          /\ nBuilds' = nBuilds + 1
          /\ lastBuild' = [path |-> "none", files |-> <<>>, ok |-> ok]
          /\ th' = [th EXCEPT ![t] = [@ EXCEPT
                       !.pc = IF ok /\ RestartsProcess THEN "rp_lock" ELSE "ret",
                       !.result = IF ok THEN "ok" ELSE "err_build"]]
    /\ UNCHANGED <<gvars, fs, entries, cfgVars, procVars, calls,
                   graph, mu, stats, dash, lastInval, built, arrived, aborted>>

(***************************************************************************)
(* cmd/hotreloader: main, and pkg/watcher: Watcher.Start. One goroutine    *)
(* runs InitialBuild, then the select loop; every case of the loop runs    *)
(* to its end inside that goroutine before the next select.                *)
(***************************************************************************)
\* the goroutine of main
W == 1

\* for { select { ... } }: the goroutine is at the select only between two cases
AtSelect == watch.pc = "loop"

StopOnError(result) == IF result \in {"ok", "hit"} THEN "loop" ELSE "stopped"

\* the error of ProcessFileChange is printed and the loop goes on
AfterEvent(result) == "loop"

\* the caller prints the error it was returned, if any
Printed(out, result) ==
    IF result \in {"ok", "hit"} THEN out ELSE Append(out, "error")

\* main: opt.InitialBuild()
MainInitialBuild ==
    /\ watch.pc = "init"
    /\ watch' = [watch EXCEPT !.pc = "ib"]
    /\ calls' = calls + 1
    /\ th' = [th EXCEPT ![W] =
                 IF HasActivePlugin
                 THEN [IdleThread EXCEPT !.pc = "ib_build", !.op = "ib"]
                 ELSE [IdleThread EXCEPT !.pc = "ret", !.op = "ib", !.result = "ok"]]
    /\ UNCHANGED <<gvars, fs, entries, active, interruptSupported, snaps, copies, summary,
                   procVars, coordVars>>

\* main: the error of InitialBuild is printed, then NewWatcher and w.Start()
\* up to the first select
MainStartWatcher ==
    /\ watch.pc = "ib"
    /\ th[W].pc = "ret"
    /\ th' = [th EXCEPT ![W] = IdleThread]
    /\ watch' = [watch EXCEPT !.pc = "loop", !.out = Printed(@, th[W].result)]
    /\ UNCHANGED <<gvars, fs, entries, active, interruptSupported, snaps, copies, summary,
                   procVars, coordVars, calls>>

\* case event: a Write, or the Create of a file, that is neither ignored nor
\* debounced: w.optimizer.ProcessFileChange(event.Name)
WEvent(f) ==
    /\ AtSelect
    /\ calls < MaxCalls
    /\ calls' = calls + 1
    /\ watch' = [watch EXCEPT !.pc = "event"]
    /\ th' = [th EXCEPT ![W] = [IdleThread EXCEPT !.pc = "pfc_lock", !.op = "pfc",
                                                  !.path = f]]
    /\ UNCHANGED <<gvars, fs, entries, active, interruptSupported, snaps, copies, summary,
                   procVars, coordVars>>

\* ProcessFileChange has returned to the loop
WHandled ==
    /\ watch.pc = "event"
    /\ th[W].pc = "ret"
    /\ th' = [th EXCEPT ![W] = IdleThread]
    /\ watch' = [watch EXCEPT !.pc = AfterEvent(th[W].result),
                              !.out = Printed(@, th[W].result)]
    /\ UNCHANGED <<gvars, fs, entries, active, interruptSupported, snaps, copies, summary,
                   procVars, coordVars, calls>>

\* case <-ticker.C: GetDashboard().PrintSummary()
WTick ==
    /\ AtSelect
    /\ watch.ticks < MaxTicks
    /\ watch' = [watch EXCEPT !.ticks = @ + 1, !.out = Append(@, "tick")]
    /\ summary' = PrintSummary(dash)
    /\ UNCHANGED <<gvars, fs, entries, active, interruptSupported, snaps, copies,
                   procVars, coordVars, calls, th>>

\* SIGINT or SIGTERM is delivered: signal.Notify puts it into sigChan
Signal ==
    /\ watch.pc \in {"loop", "event"}
    /\ ~watch.sig
    /\ watch' = [watch EXCEPT !.sig = TRUE]
    /\ UNCHANGED <<gvars, fs, entries, active, interruptSupported, snaps, copies, summary,
                   procVars, coordVars, calls, th>>

\* case <-sigChan: w.optimizer.Shutdown() is called
WSignal ==
    /\ AtSelect
    /\ watch.sig
    /\ watch' = [watch EXCEPT !.sig = FALSE, !.pc = "shutdown"]
    /\ th' = [th EXCEPT ![W] = [IdleThread EXCEPT !.pc = "rp_lock", !.op = "shutdown"]]
    /\ UNCHANGED <<gvars, fs, entries, active, interruptSupported, snaps, copies, summary,
                   procVars, coordVars, calls>>

\* Shutdown has returned: w.optimizer.PrintStats()
WPrintStats ==
    /\ watch.pc = "shutdown"
    /\ th[W].pc = "ret"
    /\ th' = [th EXCEPT ![W] = IdleThread]
    /\ watch' = [watch EXCEPT !.pc = "stats", !.out = Append(@, "stats")]
    /\ UNCHANGED <<gvars, fs, entries, active, interruptSupported, snaps, copies, summary,
                   procVars, coordVars, calls>>

\* w.optimizer.GetDashboard().PrintSummary(); return nil
WPrintSummary ==
    /\ watch.pc = "stats"
    /\ watch' = [watch EXCEPT !.pc = "stopped", !.out = Append(@, "summary")]
    /\ summary' = PrintSummary(dash)
    /\ UNCHANGED <<gvars, fs, entries, active, interruptSupported, snaps, copies,
                   procVars, coordVars, calls, th>>

(***************************************************************************)
(* pkg/optimizer: GetStats and the values it returns. A BuildStats value   *)
(* holds its counters itself and refers to its map; copies[r] is the map   *)
(* made by the r-th call of GetStats and reference 0 is the map of the     *)
(* ledger, o.stats.ModuleRebuildTime.                                      *)
(***************************************************************************)
Durations == 1..MaxDuration

\* the reference of the map the ledger itself holds
LedgerMap == 0

\* the map a reference leads to
MapAt(ref) == IF ref = LedgerMap THEN stats.ModuleRebuildTime ELSE copies[ref]

\* m[k] = v
MapPut(mp, k, v) == [x \in DOMAIN mp \cup {k} |-> IF x = k THEN v ELSE mp[x]]

SharedMap == LedgerMap

\* make(map[string]time.Duration): the reference of a new map
MadeMap == Len(copies) + 1

\* the fields of a BuildStats value as its holder reads them
View(s) ==
    [TotalRebuilds |-> s.TotalRebuilds, CacheHits |-> s.CacheHits,
     CacheMisses |-> s.CacheMisses, LastRebuildTime |-> s.LastRebuildTime,
     ModuleRebuildTime |-> MapAt(s.ModuleRebuildTime)]

\* GetStats: under stats.mu.RLock the counters are copied into a new struct and
\* the entries of the map into a new map
GetStats ==
    /\ Len(snaps) < MaxSnaps
    /\ copies' = Append(copies, stats.ModuleRebuildTime)
    /\ snaps' = Append(snaps,
                   [TotalRebuilds |-> stats.TotalRebuilds,
                    CacheHits |-> stats.CacheHits,
                    CacheMisses |-> stats.CacheMisses,
                    LastRebuildTime |-> stats.LastRebuildTime,
                    ModuleRebuildTime |-> MadeMap,
                    got |-> stats])
    /\ UNCHANGED <<gvars, fs, entries, active, interruptSupported, watch, summary,
                   procVars, coordVars, th, calls>>

\* the holder of the i-th value writes into its map: snap.ModuleRebuildTime[f] = d
SnapshotPut(i, f, d) ==
    /\ LET ref == snaps[i].ModuleRebuildTime
       IN /\ MapAt(ref) # MapPut(MapAt(ref), f, d)
          /\ IF ref = LedgerMap
             THEN /\ stats' = [stats EXCEPT !.ModuleRebuildTime = MapPut(@, f, d)]
                  /\ UNCHANGED copies
             ELSE /\ copies' = [copies EXCEPT ![ref] = MapPut(@, f, d)]
                  /\ UNCHANGED stats
    /\ snaps' = [snaps EXCEPT ![i].got.ModuleRebuildTime = MapPut(@, f, d)]
    /\ UNCHANGED <<gvars, fs, entries, active, interruptSupported, watch, summary,
                   procVars, graph, mu, dash, nBuilds, lastInval, lastBuild, built,
                   arrived, aborted, th, calls>>

\* the holder of the i-th value resets a counter of it: snap.TotalRebuilds = 0
SnapshotReset(i) ==
    /\ snaps[i].TotalRebuilds # 0
    /\ snaps' = [snaps EXCEPT ![i].TotalRebuilds = 0, ![i].got.TotalRebuilds = 0]
    /\ UNCHANGED <<gvars, fs, entries, active, interruptSupported, watch, summary, copies,
                   procVars, coordVars, th, calls>>

\* the older ProcessFileChange (pkg/optimizer/optimizer.go): its invalidation
\* loop records, under stats.mu, the time spent on each affected file
RecordModuleTime(t, f, d) ==
    /\ th[t].op = "pfc" /\ th[t].pc = "uc_stat"
    /\ f \in Range(th[t].affected)
    /\ stats.ModuleRebuildTime # MapPut(stats.ModuleRebuildTime, f, d)
    /\ stats' = [stats EXCEPT !.ModuleRebuildTime = MapPut(@, f, d)]
    /\ UNCHANGED <<gvars, fs, entries, cfgVars, procVars, graph, mu, dash,
                   nBuilds, lastInval, lastBuild, built, arrived, aborted,
                   th, calls>>

(***************************************************************************)
(* pkg/dashboard: the exported methods of Dashboard, called directly.      *)
(***************************************************************************)
\* d.UpdateRebuild(f, affectedCount, duration)
DUpdateRebuild(f, affectedCount) ==
    /\ Len(arrived) < MaxArrivals
    /\ dash' = UpdateRebuild(dash, f, affectedCount)
    /\ arrived' = Append(arrived, NewRebuildEvent(f, affectedCount))
    /\ UNCHANGED <<gvars, fs, entries, cfgVars, procVars, th, calls,
                   graph, mu, stats, nBuilds, lastInval, lastBuild, built, aborted>>

\* d.UpdateCacheHit(f)
DUpdateCacheHit(f) ==
    /\ Len(arrived) < MaxArrivals
    /\ dash.totalCacheHits < MaxDashHits
    /\ dash' = UpdateCacheHit(dash, f)
    /\ arrived' = Append(arrived, NewCacheHitEvent(f))
    /\ UNCHANGED <<gvars, fs, entries, cfgVars, procVars, th, calls,
                   graph, mu, stats, nBuilds, lastInval, lastBuild, built, aborted>>

\* d.PrintSummary()
DPrintSummary ==
    /\ summary' = PrintSummary(dash)
    /\ UNCHANGED <<gvars, fs, entries, active, interruptSupported, watch, snaps,
                   copies, procVars, coordVars, th, calls>>

(***************************************************************************)
(* Initial states.                                                         *)
(***************************************************************************)
InitGraphIdle ==
    /\ graph = <<>>
    /\ gStart = "U" /\ gStack = <<>> /\ gVisited = {} /\ gAffected = <<>>

\* the project on disk when the tool starts: u.js imports nothing, every other
\* file imports ./u.js
InitFs ==
    fs = [f \in Files |-> [exists |-> TRUE, content |-> IF f = "U" THEN 1 ELSE 2,
                           mtime |-> 0, ver |-> 0]]

\* NewModuleCache, NewDependencyGraph, NewDashboard, NewOptimizer
InitStores ==
    /\ entries = <<>>
    /\ mu = 0
    /\ stats = [TotalRebuilds |-> 0, CacheHits |-> 0, CacheMisses |-> 0,
                ModuleRebuildTime |-> <<>>, LastRebuildTime |-> 0]
    /\ dash = [events |-> <<>>, totalCacheHits |-> 0, totalRebuilds |-> 0,
               totalAffected |-> 0]
    /\ processMu = 0 /\ currentProcess = 0 /\ procs = <<>> /\ helpers = <<>>
    /\ panicked = FALSE
    /\ th = [t \in Threads |-> IdleThread]
    /\ calls = 0 /\ nBuilds = 0
    /\ lastInval = [f \in Files |-> [by |-> "none", build |-> "none"]]
    /\ lastBuild = [path |-> "none", files |-> <<>>, ok |-> FALSE]
    /\ built = [f \in Files |-> 0]
    /\ watch = [pc |-> "init", sig |-> FALSE, ticks |-> 0, out |-> <<>>]
    /\ snaps = <<>> /\ copies = <<>>
    /\ arrived = <<>> /\ summary = <<>>
    /\ aborted = 0

(***************************************************************************)
(* SpecCache: goroutines calling IsValid, UpdateCache and Invalidate while *)
(* the files change underneath.                                            *)
(***************************************************************************)
InitCache ==
    /\ InitGraphIdle /\ InitFs /\ InitStores
    /\ active = "none" /\ interruptSupported = TRUE

NextCache ==
    \/ \E t \in Threads, f \in Files : CallIsValid(t, f)
    \/ \E t \in Threads, f \in Files, ds \in {<<>>, <<"iu">>} : CallUpdateCache(t, f, ds)
    \/ \E t \in Threads, f \in Files : CallInvalidate(t, f)
    \/ \E t \in Threads : IvGet(t)
    \/ \E t \in Threads : IvStat(t)
    \/ \E t \in Threads : IvHash(t)
    \/ \E t \in Threads : UcStat(t)
    \/ \E t \in Threads : UcHash(t)
    \/ \E t \in Threads : Return(t)
    \/ \E f \in Files : FsWrite(f)
    \/ \E f \in Files : FsRemove(f)
    \/ \E f \in Files : FsCreate(f)

SpecCache == InitCache /\ [][NextCache]_vars

(***************************************************************************)
(* SpecProc: goroutines calling restartProcess and Shutdown in any         *)
(* interleaving, with the supervised program exiting when it likes.        *)
(***************************************************************************)
InitProc ==
    /\ InitGraphIdle /\ InitFs /\ InitStores
    /\ active = "go"
    /\ interruptSupported \in BOOLEAN

\* a panic ends the program: none of its goroutines takes another step
NextProc ==
    \/ \E t \in Threads : ~panicked /\ CallRestart(t)
    \/ \E t \in Threads : ~panicked /\ CallShutdown(t)
    \/ \E t \in Threads : ~panicked /\ Return(t)
    \/ \E t \in Threads : ~panicked /\ RpLock(t)
    \/ \E t \in Threads : ~panicked /\ RpCheck(t)
    \/ \E t \in Threads : ~panicked /\ RpSelectDone(t)
    \/ \E t \in Threads : ~panicked /\ RpSelectTimeout(t)
    \/ \E t \in Threads : ~panicked /\ RpKill(t)
    \/ \E t \in Threads : ~panicked /\ RpWait(t)
    \/ \E t \in Threads : ~panicked /\ RpStartOk(t)
    \/ \E t \in Threads : ~panicked /\ RpStartFail(t)
    \/ \E t \in Threads : ~panicked /\ SdClear(t)
    \/ \E t \in Threads : ~panicked /\ RpUnlock(t)
    \/ \E h \in 1..Len(helpers) : ~panicked /\ HRead(h)
    \/ \E h \in 1..Len(helpers) : ~panicked /\ HWait(h)
    \/ \E p \in Pids : ProcExit(p)

SpecProc == InitProc /\ [][NextProc]_vars

(***************************************************************************)
(* Spec: the optimizer as the program runs it. NewOptimizer activates the  *)
(* first detected plugin; goroutines deliver change events and the initial *)
(* build while the files are written or removed and the supervised program *)
(* exits when it likes.                                                    *)
(***************************************************************************)
Init ==
    /\ InitGraphIdle /\ InitFs /\ InitStores
    /\ \E detected \in SUBSET Range(Plugins) : active = DetectAndActivate(detected)
    /\ interruptSupported \in BOOLEAN

Next ==
    \/ \E t \in Threads, f \in Files : ~panicked /\ calls < MaxChanges /\ CallPFC(t, f)
    \/ \E t \in Threads : ~panicked /\ calls < MaxChanges /\ CallInitialBuild(t)
    \/ \E t \in Threads : ~panicked /\ PfcLock(t)
    \/ \E t \in Threads : ~panicked /\ IvGet(t)
    \/ \E t \in Threads : ~panicked /\ IvStat(t)
    \/ \E t \in Threads : ~panicked /\ IvHash(t)
    \/ \E t \in Threads : ~panicked /\ PfcDecide(t)
    \/ \E t \in Threads : ~panicked /\ PfcAnalyze(t)
    \/ \E t \in Threads : ~panicked /\ PfcBuild(t)
    \/ \E t \in Threads : ~panicked /\ IbBuild(t)
    \/ \E t \in Threads : ~panicked /\ RpLock(t)
    \/ \E t \in Threads : ~panicked /\ RpCheck(t)
    \/ \E t \in Threads : ~panicked /\ RpSelectDone(t)
    \/ \E t \in Threads : ~panicked /\ RpSelectTimeout(t)
    \/ \E t \in Threads : ~panicked /\ RpKill(t)
    \/ \E t \in Threads : ~panicked /\ RpWait(t)
    \/ \E t \in Threads : ~panicked /\ RpStartOk(t)
    \/ \E t \in Threads : ~panicked /\ RpStartFail(t)
    \/ \E t \in Threads : ~panicked /\ RpUnlock(t)
    \/ \E h \in 1..Len(helpers) : ~panicked /\ HRead(h)
    \/ \E h \in 1..Len(helpers) : ~panicked /\ HWait(h)
    \/ \E t \in Threads : ~panicked /\ UcStat(t)
    \/ \E t \in Threads : ~panicked /\ UcHash(t)
    \/ \E t \in Threads : ~panicked /\ PfcFinish(t)
    \/ \E t \in Threads : ~panicked /\ Return(t)
    \/ \E p \in Pids : ProcExit(p)
    \/ \E f \in Files : TotalWrites < MaxEdits /\ FsWrite(f)
    \/ \E f \in Files : TotalWrites < MaxEdits /\ FsRemove(f)

Spec == Init /\ [][Next]_vars

(***************************************************************************)
(* SpecWatch: the program as main runs it. The initial build, then the     *)
(* loop of the watcher, in one goroutine; beside it the helper goroutines, *)
(* the supervised program, the files and the signal.                       *)
(***************************************************************************)
NextWatch ==
    \/ ~panicked /\ MainInitialBuild
    \/ ~panicked /\ MainStartWatcher
    \/ \E f \in Files : ~panicked /\ WEvent(f)
    \/ ~panicked /\ WHandled
    \/ ~panicked /\ WTick
    \/ ~panicked /\ Signal
    \/ ~panicked /\ WSignal
    \/ ~panicked /\ WPrintStats
    \/ ~panicked /\ WPrintSummary
    \/ \E t \in Threads : ~panicked /\ PfcLock(t)
    \/ \E t \in Threads : ~panicked /\ IvGet(t)
    \/ \E t \in Threads : ~panicked /\ IvStat(t)
    \/ \E t \in Threads : ~panicked /\ IvHash(t)
    \/ \E t \in Threads : ~panicked /\ PfcDecide(t)
    \/ \E t \in Threads : ~panicked /\ PfcAnalyze(t)
    \/ \E t \in Threads : ~panicked /\ PfcBuild(t)
    \/ \E t \in Threads : ~panicked /\ IbBuild(t)
    \/ \E t \in Threads : ~panicked /\ RpLock(t)
    \/ \E t \in Threads : ~panicked /\ RpCheck(t)
    \/ \E t \in Threads : ~panicked /\ RpSelectDone(t)
    \/ \E t \in Threads : ~panicked /\ RpSelectTimeout(t)
    \/ \E t \in Threads : ~panicked /\ RpKill(t)
    \/ \E t \in Threads : ~panicked /\ RpWait(t)
    \/ \E t \in Threads : ~panicked /\ RpStartOk(t)
    \/ \E t \in Threads : ~panicked /\ RpStartFail(t)
    \/ \E t \in Threads : ~panicked /\ SdClear(t)
    \/ \E t \in Threads : ~panicked /\ RpUnlock(t)
    \/ \E h \in 1..Len(helpers) : ~panicked /\ HRead(h)
    \/ \E h \in 1..Len(helpers) : ~panicked /\ HWait(h)
    \/ \E t \in Threads : ~panicked /\ UcStat(t)
    \/ \E t \in Threads : ~panicked /\ UcHash(t)
    \/ \E t \in Threads : ~panicked /\ PfcFinish(t)
    \/ \E p \in Pids : ProcExit(p)
    \/ \E f \in Files : TotalWrites < MaxEdits /\ FsWrite(f)
    \/ \E f \in Files : TotalWrites < MaxEdits /\ FsRemove(f)

SpecWatch == Init /\ [][NextWatch]_vars

(***************************************************************************)
(* SpecStats: goroutines deliver change events to an optimizer without a   *)
(* build plugin while others call GetStats and write into the values they  *)
(* were returned.                                                          *)
(***************************************************************************)
InitStats ==
    /\ InitGraphIdle /\ InitFs /\ InitStores
    /\ active = "none" /\ interruptSupported = TRUE

NextStats ==
    \/ \E t \in Threads, f \in Files : calls < MaxChanges /\ CallPFC(t, f)
    \/ \E t \in Threads : PfcLock(t)
    \/ \E t \in Threads : IvGet(t)
    \/ \E t \in Threads : IvStat(t)
    \/ \E t \in Threads : IvHash(t)
    \/ \E t \in Threads : PfcDecide(t)
    \/ \E t \in Threads : PfcAnalyze(t)
    \/ \E t \in Threads, f \in Files, d \in Durations : RecordModuleTime(t, f, d)
    \/ \E t \in Threads : UcStat(t)
    \/ \E t \in Threads : UcHash(t)
    \/ \E t \in Threads : PfcFinish(t)
    \/ \E t \in Threads : Return(t)
    \/ GetStats
    \/ \E i \in 1..Len(snaps), f \in Files, d \in Durations : SnapshotPut(i, f, d)
    \/ \E i \in 1..Len(snaps) : SnapshotReset(i)

SpecStats == InitStats /\ [][NextStats]_vars

(***************************************************************************)
(* SpecShutdown: the optimizer with the Go plugin active; goroutines       *)
(* deliver change events while another calls Shutdown and others read the  *)
(* statistics and print summaries. No event is delivered once a call of    *)
(* Shutdown has returned, and the goroutine that called Shutdown does      *)
(* nothing after it.                                                       *)
(***************************************************************************)
ShutdownReturned == \E t \in Threads : th[t].op = "shutdown" /\ th[t].pc = "ret"

NextShutdown ==
    \/ \E t \in Threads, f \in Files :
          ~panicked /\ ~ShutdownReturned /\ calls < MaxChanges /\ CallPFC(t, f)
    \/ \E t \in Threads : ~panicked /\ ~ShutdownReturned /\ CallShutdown(t)
    \/ \E t \in Threads : ~panicked /\ PfcLock(t)
    \/ \E t \in Threads : ~panicked /\ IvGet(t)
    \/ \E t \in Threads : ~panicked /\ IvStat(t)
    \/ \E t \in Threads : ~panicked /\ IvHash(t)
    \/ \E t \in Threads : ~panicked /\ PfcDecide(t)
    \/ \E t \in Threads : ~panicked /\ PfcAnalyze(t)
    \/ \E t \in Threads : ~panicked /\ PfcBuild(t)
    \/ \E t \in Threads : ~panicked /\ RpLock(t)
    \/ \E t \in Threads : ~panicked /\ RpCheck(t)
    \/ \E t \in Threads : ~panicked /\ RpSelectDone(t)
    \/ \E t \in Threads : ~panicked /\ RpSelectTimeout(t)
    \/ \E t \in Threads : ~panicked /\ RpKill(t)
    \/ \E t \in Threads : ~panicked /\ RpWait(t)
    \/ \E t \in Threads : ~panicked /\ RpStartOk(t)
    \/ \E t \in Threads : ~panicked /\ RpStartFail(t)
    \/ \E t \in Threads : ~panicked /\ SdClear(t)
    \/ \E t \in Threads : ~panicked /\ RpUnlock(t)
    \/ \E h \in 1..Len(helpers) : ~panicked /\ HRead(h)
    \/ \E h \in 1..Len(helpers) : ~panicked /\ HWait(h)
    \/ \E t \in Threads : ~panicked /\ UcStat(t)
    \/ \E t \in Threads : ~panicked /\ UcHash(t)
    \/ \E t \in Threads : ~panicked /\ PfcFinish(t)
    \/ \E t \in Threads : ~panicked /\ th[t].op = "pfc" /\ Return(t)
    \/ ~panicked /\ GetStats
    \/ ~panicked /\ DPrintSummary
    \/ \E p \in Pids : ProcExit(p)

SpecShutdown == InitProc /\ [][NextShutdown]_vars

(***************************************************************************)
(* SpecDash: a long run of rebuild and cache-hit events handed to the      *)
(* dashboard, with summaries printed in between.                           *)
(***************************************************************************)
NextDash ==
    \/ DUpdateRebuild("U", 1)
    \/ \E f \in Files : DUpdateCacheHit(f)
    \/ DPrintSummary

SpecDash == InitStats /\ [][NextDash]_vars

(***************************************************************************)
(* SpecGraph: GetAllAffectedFiles run on every graph of the bounded        *)
(* universe, from every start path.                                        *)
(***************************************************************************)
InitGraph ==
    /\ InitFs /\ InitStores
    /\ active = "none" /\ interruptSupported = TRUE
    /\ \E S \in SUBSET GraphFiles : graph \in [S -> DepLists]
    /\ gStart \in GraphFiles
    /\ gStack = <<[f |-> gStart, st |-> "enter", ds |-> <<>>]>>
    /\ gVisited = {}
    /\ gAffected = <<>>

GOther == <<fs, entries, mu, stats, dash, active, interruptSupported,
            processMu, currentProcess, procs, helpers, panicked,
            th, calls, nBuilds, lastInval, lastBuild, built,
            watch, snaps, copies, arrived, aborted, summary>>

NextGraph ==
    \/ GEnter /\ UNCHANGED GOther
    \/ GLoop /\ UNCHANGED GOther

SpecGraph == InitGraph /\ [][NextGraph]_vars

(***************************************************************************)
(* Claims about the dependency graph (checked under SpecGraph).            *)
(***************************************************************************)
NoDuplicates(s) == \A i, j \in 1..Len(s) : i # j => s[i] # s[j]

RECURSIVE SumDs(_)
SumDs(st) == IF st = <<>> THEN 0 ELSE Len(Head(st).ds) + SumDs(Tail(st))

\* the work left to the traversal: files not yet visited, dependents not yet ranged
\* over, frames not yet returned from
Rank ==
    (2 * NGraphFiles + 1) * Cardinality(GraphFiles \ gVisited)
        + 2 * SumDs(gStack) + Len(gStack)

\* C7 (state part): the slice being built never holds a path twice; the traversal
\* can take a step until it has returned; when it has returned the slice holds the
\* start path and is one of the results of the operator GetAllAffectedFiles; and
\* every result of that operator holds the start path and holds no path twice.
C7_Safe ==
    /\ NoDuplicates(gAffected)
    /\ Rank >= 0
    /\ ~GDone => ENABLED NextGraph
    /\ GDone => (gStart \in Range(gAffected)
                 /\ gAffected \in GetAllAffectedFiles(graph, gStart))
    /\ gAffected = <<>> =>
           \A r \in GetAllAffectedFiles(graph, gStart) :
               gStart \in Range(r) /\ NoDuplicates(r)

\* C7 (step part): every step of the traversal lowers Rank, a natural number, so
\* the traversal takes finitely many steps.
C7_Progress == Rank' < Rank

\* C7: for every dependency graph (cycles and diamonds included) and every start
\* path, recorded or not, GetAllAffectedFiles terminates, its result contains the
\* start path and contains no path more than once.
C7_TraversalTerminates == []C7_Safe /\ [][C7_Progress]_vars

\* the traversal returned on the cycle u.js <-> m.js, with both files in the result
C7_Witness ==
    /\ GDone
    /\ {"U", "M"} \subseteq DOMAIN graph
    /\ "im" \in Range(graph["U"]) /\ "iu" \in Range(graph["M"])
    /\ {"U", "M"} \subseteq Range(gAffected)

\* reachable: a start path the graph has not recorded
C7_UnrecordedStartWitness == GDone /\ gStart \notin DOMAIN graph /\ Len(gAffected) >= 2

(***************************************************************************)
(* Claims about the fingerprint store (checked under SpecCache).           *)
(***************************************************************************)
InIsValid(t) == th[t].pc \in {"iv_get", "iv_stat", "iv_hash"}

\* IsValid has just returned to a direct caller
IsValidReturned(t) == th[t].pc = "ret" /\ th[t].op = "isvalid"

\* C6 (first half, state part): when IsValid returns for a path whose stored entry
\* was built from the file as it still is (no write to the file since the stat of
\* the UpdateCache that stored the entry, entry present when IsValid fetched it),
\* it returns true and no error.
C6_ValidWhileUnmodified ==
    \A t \in Threads :
        (/\ IsValidReturned(t)
         /\ th[t].ent # NoEntry
         /\ th[t].ent.ver = fs[th[t].path].ver)
        => (th[t].valid /\ ~th[t].ioerr)

\* C6 (first half, frame part): a step of IsValid changes neither the store nor
\* the file.
C6_CheckChangesNothing ==
    \A t \in Threads :
        (InIsValid(t) /\ th'[t].pc # th[t].pc) => (entries' = entries /\ fs' = fs)

\* C6 (second half): IsValid returns true only if the bytes on disk are the bytes
\* the entry was computed from; bytes that differ, whatever the size and the
\* modification time, make it return false.
C6_FalseOnceBytesDiffer ==
    \A t \in Threads :
        (InIsValid(t) /\ ~InIsValid(t)' /\ th'[t].valid)
        => (/\ fs[th[t].path].exists
            /\ th[t].ent # NoEntry
            /\ HashOf(fs[th[t].path].content) = th[t].ent.Hash)

\* C6: after UpdateCache(path, deps) succeeded, IsValid(path) returns true on every
\* call while the file is not modified and the entry not invalidated, the check
\* changes no state, and IsValid(path) returns false once the bytes are modified,
\* also when size and modification time are unchanged.
C6_UpdateThenValid ==
    /\ []C6_ValidWhileUnmodified
    /\ [][C6_CheckChangesNothing /\ C6_FalseOnceBytesDiffer]_vars

\* an IsValid that returned true for an unmodified file, as the last of three calls
C6_Witness ==
    \E t \in Threads :
        /\ IsValidReturned(t) /\ th[t].valid /\ calls >= 3
        /\ th[t].ent.ver = fs[th[t].path].ver

\* reachable: IsValid answered false although size and mtime agree with the entry
C6_SameSizeWitness ==
    \E t \in Threads :
        /\ IsValidReturned(t) /\ ~th[t].valid /\ ~th[t].ioerr
        /\ th[t].ent # NoEntry
        /\ fs[th[t].path].exists
        /\ MetaMatches(th[t].path, th[t].ent)

(***************************************************************************)
(* C4, C5: the process supervisor.                                         *)
(***************************************************************************)
\* the goroutine is inside the section processMu guards
InSupervisor(t) ==
    th[t].pc \in {"rp_check", "rp_select", "rp_kill", "rp_wait", "rp_start",
                  "sd_clear", "rp_unlock"}

\* C4: under every interleaving of restartProcess and Shutdown calls at most one
\* process started by the supervisor is alive, and it is the one tracked handle;
\* a new instance is started only when no old one is alive; and at most one
\* caller is inside the stop/start section, so that a restart arriving while
\* another caller waits out its grace period waits for the lock.
C4_AtMostOneInstance ==
    /\ Cardinality(Alive) <= 1
    /\ currentProcess \in 0..Len(procs)
    /\ Alive \subseteq {currentProcess}
    /\ \A t \in Threads : th[t].pc = "rp_start" => Alive = {}
    /\ \A t, u \in Threads : InSupervisor(t) /\ InSupervisor(u) => t = u
    /\ \A t \in Threads : InSupervisor(t) => processMu = t

\* a second instance has replaced the first, which is dead, while another restart
\* is kept waiting at the lock
C4_Witness ==
    /\ Len(procs) = 2
    /\ Alive = {2}
    /\ \E t, u \in Threads : /\ th[t].pc = "rp_unlock" /\ th[t].op = "restart"
                             /\ th[u].pc = "rp_lock"

\* a restart is kept waiting while a shutdown waits out its grace period
C4_WaitingWitness ==
    \E t, u \in Threads : /\ th[t].pc = "rp_select" /\ th[t].op = "shutdown"
                          /\ th[u].pc = "rp_lock" /\ th[u].op = "restart"
                          /\ Alive # {}

\* C5 as stated (refuted): whenever a stop has called Kill, its grace period had
\* expired without the exit being seen; no other condition leads to a kill.
C5_KillOnlyAfterGrace ==
    \A t \in Threads : th[t].killed => th[t].branch = "timeout"

\* C5 (amended), the state part: a stop has called Kill exactly when its grace
\* period expired before the exit was seen, or when the interrupt could not be
\* delivered; a stop that saw the exit in time has not called Kill.
C5_KillIff ==
    \A t \in Threads :
        /\ th[t].killed => th[t].branch \in {"timeout", "sigerr"}
        /\ th[t].branch \in {"timeout", "sigerr"} /\ th[t].pc # "rp_kill" => th[t].killed
        /\ th[t].branch = "graceful" => ~th[t].killed
        /\ th[t].pc = "rp_select" => th[t].branch = "waiting" /\ ~th[t].killed

\* C5 (amended), the step part: the kill signal reaches a process only from a stop
\* of these two kinds; a stop is graceful only when the tracked process has exited
\* and been waited for; the interrupt counts as undeliverable only when Signal fails.
C5_KillSteps ==
    /\ \A p \in Pids :
          procs[p].sig # "kill" /\ procs'[p].sig = "kill" =>
              /\ p = currentProcess
              /\ procs[p].st # "reaped"
              /\ \E t \in Threads : /\ th[t].pc = "rp_kill"
                                    /\ th[t].branch \in {"timeout", "sigerr"}
                                    /\ th'[t].killed
    /\ \A t \in Threads :
          /\ th[t].branch # "graceful" /\ th'[t].branch = "graceful" =>
                 procs[currentProcess].st = "reaped"
          /\ th[t].branch # "sigerr" /\ th'[t].branch = "sigerr" =>
                 SignalFails(currentProcess)
          /\ th[t].branch # "timeout" /\ th'[t].branch = "timeout" =>
                 procs[currentProcess].sig = "int"

\* C5 (amended): in restartProcess and Shutdown, Kill is called if and only if the
\* grace period expired before the exit was seen or the interrupt could not be
\* delivered; a process seen to exit in time is never killed.
C5_KillIffGraceExpiredOrNoInterrupt == []C5_KillIff /\ [][C5_KillSteps]_vars

\* a running process was killed at once, without a grace period, because the
\* interrupt could not be delivered
C5_Witness ==
    /\ ~interruptSupported
    /\ \E t \in Threads : /\ th[t].branch = "sigerr" /\ th[t].killed
                          /\ th[t].pc = "rp_wait"
                          /\ procs[currentProcess].sig = "kill"

\* a process that ignored the interrupt was killed when the grace period expired
C5_TimeoutWitness ==
    \E t \in Threads : /\ th[t].branch = "timeout" /\ th[t].killed
                       /\ th[t].pc = "rp_wait"
                       /\ procs[currentProcess].sig = "kill"

\* a process exited in time and the stop went on without a kill
C5_GracefulWitness ==
    \E t \in Threads : /\ th[t].branch = "graceful" /\ th[t].pc = "rp_start"
                       /\ procs[currentProcess].sig = "int"

\* Kill was called on a handle that had already been waited for, after a failed start
C5_StaleHandleWitness ==
    /\ interruptSupported
    /\ \E t \in Threads : /\ th[t].branch = "sigerr" /\ th[t].killed
                          /\ procs[currentProcess].st = "reaped"

(***************************************************************************)
(* C1, C2, C3, C8, C9, C10: the rebuild pipeline (specification Spec).     *)
(***************************************************************************)
\* the goroutine is between the validity check of ProcessFileChange and its return
InPipeline(t) == th[t].op = "pfc" /\ th[t].pc \notin {"idle", "pfc_lock", "ret"}

\* the goroutine takes a step
Steps(t) == th'[t] # th[t]

C1_OnePipeline ==
    \A t \in Threads : InPipeline(t) =>
        /\ mu = t
        /\ \A u \in Threads : InPipeline(u) => u = t

C1_AdmittedWhenFinished ==
    \A t \in Threads : ~InPipeline(t) /\ InPipeline(t)' =>
        \A u \in Threads : ~InPipeline(u)

\* C1: with concurrent callers of ProcessFileChange at most one pipeline is between
\* its validity check and its return, and an event starts its validity check only
\* when no admitted pipeline is unfinished (whether that one ends in a hit, a
\* rebuild or an error).
C1_PipelinesSerialized == []C1_OnePipeline /\ [][C1_AdmittedWhenFinished]_vars

\* an event waits for the lock while another one's pipeline, past its
\* invalidation, is about to call the backend
C1_Witness ==
    \E t, u \in Threads : /\ th[t].op = "pfc" /\ th[t].pc = "pfc_build" /\ mu = t
                          /\ th[u].op = "pfc" /\ th[u].pc = "pfc_lock"

\* the first half of C2 (holds): a fingerprint is stored for P only if the last
\* pipeline that invalidated P was P's own and its build step did not fail
C2_StoredOnlyAfterOwnBuild ==
    \A P \in DOMAIN entries :
        /\ lastInval[P].by = P
        /\ lastInval[P].build = IF active = "none" THEN "pending" ELSE "built"

C2_HitStep ==
    \A t \in Threads :
        /\ th[t].op = "pfc" /\ th[t].pc = "iv_hash"
        /\ th'[t].pc = "pfc_decide" /\ th'[t].valid
        /\ th[t].ent.ver = fs[th[t].path].ver
        /\ active # "none"
        => built[th[t].path] = fs[th[t].path].content

\* C2 as stated (refuted by the code): fingerprints are stored only by the path's
\* own successful pipeline, and so a validity check of the pipeline answers true
\* for P (not written since its fingerprint was taken) only when the bytes of P on
\* disk are the bytes its last successful build read: no change to P goes
\* unprocessed behind a cache hit.
C2_NoStaleHit == []C2_StoredOnlyAfterOwnBuild /\ [][C2_HitStep]_vars

C3_FailedLeavesNoFingerprint ==
    /\ \A P \in Files :
          lastInval[P].by = P /\ lastInval[P].build = "failed" => P \notin DOMAIN entries
    /\ \A t \in Threads :
          th[t].op = "pfc" /\ th[t].result = "err_build" =>
              /\ th[t].pc = "ret"
              /\ th[t].branch = "none" /\ th[t].helper = 0 /\ ~th[t].killed

C3_FailureStep ==
    \A t \in Threads :
        /\ (th[t].op = "pfc" /\ th[t].pc = "pfc_build" /\ Steps(t) /\ ~lastBuild'.ok =>
               /\ th'[t].pc = "ret" /\ th'[t].result = "err_build"
               /\ mu' = 0
               /\ th[t].path \notin DOMAIN entries'
               /\ procs' = procs /\ currentProcess' = currentProcess
               /\ helpers' = helpers)
        /\ (th[t].op = "pfc" /\ th[t].pc = "iv_get" /\ Steps(t)
              /\ lastInval[th[t].path] = [by |-> th[t].path, build |-> "failed"] =>
               th'[t].pc = "pfc_decide" /\ ~th'[t].valid /\ ~th'[t].ioerr)

\* C3: when the backend reports failure for a change of P, the pipeline returns
\* the build error at once, P has no fingerprint then and until a later pipeline
\* removes it again (so the next validity check on P answers false), and the
\* supervisor is not entered: no signal, no kill, no start.
C3_BuildFailure == []C3_FailedLeavesNoFingerprint /\ [][C3_FailureStep]_vars

\* a failed build has returned its error while the program started by an earlier
\* build is still running, untouched
C3_Witness ==
    \E t \in Threads : /\ th[t].op = "pfc" /\ th[t].pc = "ret"
                       /\ th[t].result = "err_build"
                       /\ th[t].path \notin DOMAIN entries
                       /\ nBuilds = 2
                       /\ Alive # {} /\ procs[currentProcess].sig = "none"

C8_Steps ==
    \A t \in Threads : th[t].op = "pfc" /\ Steps(t) =>
        LET P == th[t].path
        IN /\ (th[t].pc = "pfc_decide" /\ th[t].ent = NoEntry /\ ~th[t].ioerr =>
                  /\ stats'.CacheMisses = stats.CacheMisses + 1
                  /\ stats'.CacheHits = stats.CacheHits
                  /\ th'[t].pc = "pfc_analyze")
           /\ (th[t].pc = "pfc_analyze" /\ th'[t].pc # "ret" =>
                  /\ graph'[P] = th'[t].deps
                  /\ (fs[P].exists => Range(th'[t].deps) = ImportsOf(fs[P].content))
                  /\ (DependentsOf(graph', P) \subseteq {P} => th'[t].affected = <<P>>))
           /\ (th[t].pc = "pfc_build" =>
                  /\ nBuilds' = nBuilds + 1
                  /\ lastBuild'.path = P /\ lastBuild'.files = th[t].affected)
           /\ (th[t].pc = "uc_hash" /\ ~th'[t].ioerr =>
                  /\ lastInval[P] = [by |-> P, build |-> IF active = "none"
                                                         THEN "pending" ELSE "built"]
                  /\ P \in DOMAIN entries'
                  /\ entries'[P].Hash = HashOf(fs[P].content)
                  /\ entries'[P].Dependencies = th[t].deps)
           /\ ((th[t].pc = "pfc_decide" /\ P \in DOMAIN entries /\ fs[P].exists
                   /\ entries[P].ver = fs[P].ver) =>
                  /\ th'[t].pc = "ret" /\ th'[t].result = "hit"
                  /\ stats'.CacheHits = stats.CacheHits + 1
                  /\ stats'.CacheMisses = stats.CacheMisses
                  /\ nBuilds' = nBuilds /\ lastBuild' = lastBuild)

\* C8: an event on a file without fingerprint counts a cache miss and goes on to
\* the analysis; the analysis records the imports found in the file, and with no
\* dependents recorded the affected set is the file alone; the backend is called
\* with exactly the affected set; after a successful build the fingerprint of the
\* bytes on disk is stored; and an event on a file not written since its
\* fingerprint was taken is a cache hit that returns without a build.
C8_MissThenHit == [][C8_Steps]_vars

\* the second event on an unmodified file has returned as a hit: one miss, one
\* build called with that file alone, one hit
C8_Witness ==
    \E t \in Threads :
        /\ th[t].op = "pfc" /\ th[t].pc = "ret" /\ th[t].result = "hit"
        /\ active # "none"
        /\ stats.CacheMisses = 1 /\ stats.CacheHits = 1 /\ nBuilds = 1
        /\ lastBuild = [path |-> th[t].path, files |-> <<th[t].path>>, ok |-> TRUE]
        /\ th[t].path \in DOMAIN entries
        /\ fs[th[t].path].ver = 0

\* the bytes of m on disk import u, by the test GetDependents applies
Imports(m, u) ==
    fs[m].exists /\ \E d \in ImportsOf(fs[m].content) : u \in MatchTable[d]

\* C9 as stated (refuted by the code): when the backend is about to be called for
\* a change of U, every file M whose bytes import U is in the affected set, and
\* neither U nor M has a fingerprint.
C9_ImportersAffected ==
    \A t \in Threads : th[t].op = "pfc" /\ th[t].pc = "pfc_build" =>
        \A M \in Files : Imports(M, th[t].path) =>
            /\ M \in Range(th[t].affected)
            /\ M \notin DOMAIN entries
            /\ th[t].path \notin DOMAIN entries

\* what does hold: the files whose recorded identifiers match U are affected and
\* without fingerprint when the backend is about to be called
C9_RecordedDependentsAffected ==
    \A t \in Threads : th[t].op = "pfc" /\ th[t].pc = "pfc_build" =>
        /\ DependentsOf(graph, th[t].path) \cup {th[t].path} \subseteq Range(th[t].affected)
        /\ \A M \in Range(th[t].affected) : M \notin DOMAIN entries

C10_NothingBuiltOrStarted ==
    active = "none" =>
        /\ nBuilds = 0 /\ lastBuild.path = "none" /\ lastBuild.files = <<>>
        /\ procs = <<>> /\ currentProcess = 0 /\ helpers = <<>> /\ processMu = 0
        /\ \A t \in Threads :
              /\ th[t].pc \notin {"pfc_build", "ib_build", "rp_lock", "rp_check",
                                  "rp_select", "rp_kill", "rp_wait", "rp_start",
                                  "rp_unlock"}
              /\ (th[t].op = "pfc" /\ th[t].pc \in {"uc_stat", "uc_hash", "pfc_finish"} =>
                     /\ th[t].path \in DOMAIN graph
                     /\ graph[th[t].path] = th[t].deps)
              /\ (th[t].op = "pfc" /\ th[t].result = "ok" =>
                     th[t].path \in DOMAIN graph)

C10_MissSteps ==
    active = "none" =>
        \A t \in Threads : th[t].op = "pfc" /\ Steps(t) =>
            LET P == th[t].path
            IN /\ (th[t].pc = "pfc_analyze" /\ ~AnalyzeFails(P) =>
                      /\ th'[t].pc = "uc_stat"
                      /\ P \in DOMAIN graph' /\ graph'[P] = th'[t].deps
                      /\ Range(th'[t].deps) = ImportsOf(fs[P].content))
               /\ (th[t].pc = "uc_hash" /\ StatOk(P) =>
                      /\ P \in DOMAIN entries'
                      /\ entries'[P].Hash = HashOf(fs[P].content)
                      /\ entries'[P].Dependencies = th[t].deps)
               /\ (th[t].pc = "pfc_finish" /\ ~th[t].ioerr =>
                      /\ th'[t].result = "ok" /\ P \in DOMAIN entries)

\* C10: when no plugin is detected, the backend is never called and no process is
\* ever started, signalled or waited for, whatever events and initial builds
\* arrive; every cache-miss event whose file can be read records the imports of
\* the file in the graph and stores the fingerprint of the file.
C10_AnalysisOnly == []C10_NothingBuiltOrStarted /\ [][C10_MissSteps]_vars

\* without a plugin, the event on m.js has recorded its import and its fingerprint
C10_Witness ==
    /\ active = "none"
    /\ \E t \in Threads : /\ th[t].op = "pfc" /\ th[t].pc = "ret" /\ th[t].result = "ok"
                          /\ th[t].path = "M"
    /\ "M" \in DOMAIN graph /\ graph["M"] = <<"iu">>
    /\ "M" \in DOMAIN entries /\ entries["M"].Dependencies = <<"iu">>
    /\ stats.CacheMisses >= 1 /\ nBuilds = 0

(***************************************************************************)
(* Claims about errors inside the pipeline (checked under Spec).           *)
(***************************************************************************)
\* the results with which ProcessFileChange returns an error
ErrResults == {"err_cache", "err_analyze", "err_build", "err_update", "err_restart"}

\* a step of the pipeline of t has failed
StepFailed(t) ==
    /\ th[t].op = "pfc"
    /\ th[t].ioerr \/ th[t].rerr \/ th[t].result \in ErrResults

\* a pipeline with a failed step is over once the failing call has returned:
\* it stores no fingerprint, counts nothing and reports nothing
C11_NothingAfterFailure ==
    \A t \in Threads :
        (StepFailed(t) /\ Steps(t)) => UNCHANGED <<entries, stats, dash>>

\* a pipeline with a failed step returns an error
C11_FailureReturned ==
    \A t \in Threads :
        (StepFailed(t) /\ th[t].pc = "ret") => th[t].result \in ErrResults

\* C11: an error at any step of the pipeline (validity check, dependency
\* analysis, build, process restart, fingerprint refresh) aborts the remaining
\* steps of that event and is returned by ProcessFileChange: no fingerprint
\* refresh, statistics update or report follows the failing step.
C11_ErrorAbortsPipeline ==
    [][C11_NothingAfterFailure]_vars /\ []C11_FailureReturned

\* a pipeline whose restart failed is about to record the rebuild
C11_RestartFailedWitness ==
    \E t \in Threads : th[t].op = "pfc" /\ th[t].rerr /\ th[t].pc = "pfc_finish"
                       /\ ~th[t].ioerr

\* the steps that belong to C11 hold for every failure but that of the restart
C11_OtherErrorsAbort ==
    /\ [][\A t \in Threads :
             (StepFailed(t) /\ ~th[t].rerr /\ Steps(t))
                 => UNCHANGED <<entries, stats, dash>>]_vars
    /\ [](\A t \in Threads :
             (StepFailed(t) /\ ~th[t].rerr /\ th[t].pc = "ret")
                 => th[t].result \in ErrResults)

(***************************************************************************)
(* Claims about the validity check inside the pipeline (under Spec).       *)
(***************************************************************************)
\* the pipeline of t decides on a file whose stored fingerprint was taken from
\* the bytes the file holds now
DecidesOnFingerprintedBytes(t) ==
    /\ th[t].pc = "pfc_decide" /\ Steps(t)
    /\ ~th[t].ioerr
    /\ th[t].path \in DOMAIN entries
    /\ th[t].ent = entries[th[t].path]
    /\ StatOk(th[t].path)
    /\ ComputeFileHash(th[t].path) = th[t].ent.Hash

\* C12: a change event on a file whose modification time changed while its
\* bytes are those of its stored fingerprint is answered from the cache: it
\* is not counted as a miss and the build backend is not invoked for it.
C12_TouchIsNoRebuild ==
    [][\A t \in Threads :
          DecidesOnFingerprintedBytes(t)
              => (th'[t].result = "hit" /\ th'[t].pc = "ret"
                  /\ stats'.TotalRebuilds = stats.TotalRebuilds)]_vars

\* the touched file is being rebuilt by the backend
C12_TouchRebuiltWitness ==
    \E t \in Threads :
        /\ th[t].pc = "pfc_build"
        /\ th[t].ent # NoEntry
        /\ StatOk(th[t].path)
        /\ ComputeFileHash(th[t].path) = th[t].ent.Hash
        /\ fs[th[t].path].mtime # th[t].ent.LastModified

\* the step with which the pipeline of t answers a validity check that failed
\* on an I/O error: the error is returned, nothing is counted, reported, stored,
\* built or restarted
C13_ErrorStep ==
    \A t \in Threads :
        (th[t].pc = "pfc_decide" /\ th[t].ioerr /\ Steps(t))
            => /\ ~th[t].valid
               /\ th'[t].pc = "ret" /\ th'[t].result = "err_cache"
               /\ ~panicked'
               /\ UNCHANGED <<stats, dash, entries, graph, nBuilds, lastBuild,
                              procs, currentProcess, helpers>>

\* a pipeline that returned the error of the validity check does nothing but
\* return
C13_ErrorIsFinal ==
    \A t \in Threads :
        (th[t].op = "pfc" /\ th[t].result = "err_cache")
            => (th[t].pc = "ret" /\ th[t].ioerr /\ th[t].ent # NoEntry)

\* C13: when the validity check on a path with a stored fingerprint hits an
\* I/O error, the event is treated as not valid and ProcessFileChange returns
\* an error without crashing; no cache hit is counted or notified and no build
\* or restart is performed for the event.
C13_CheckErrorSurfaced ==
    [][C13_ErrorStep]_vars /\ []C13_ErrorIsFinal

\* an event on a fingerprinted file that was deleted has returned the error
C13_Witness ==
    \E t \in Threads :
        /\ th[t].op = "pfc" /\ th[t].pc = "ret" /\ th[t].result = "err_cache"
        /\ ~fs[th[t].path].exists
        /\ th[t].path \in DOMAIN entries

(***************************************************************************)
(* Claims about when the supervisor is asked to restart (under Spec).      *)
(***************************************************************************)
\* the build backend has just returned success to the pipeline or the initial
\* build of t
BuildSucceeds(t) ==
    /\ th[t].pc \in {"pfc_build", "ib_build"} /\ Steps(t)
    /\ lastBuild'.ok

\* after a successful build restartProcess is called exactly when the backend
\* is the Go one, and it is called from nowhere else
C16_RestartStep ==
    \A t \in Threads :
        /\ BuildSucceeds(t) => (th'[t].pc = "rp_lock" <=> active = "go")
        /\ (th'[t].pc = "rp_lock" /\ th[t].pc # "rp_lock") => BuildSucceeds(t)

\* with a backend that produces static assets the supervisor is never entered
\* and no process is ever started
C16_NoRestartForAssets ==
    active \in {"webpack", "vite", "none"}
        => /\ procs = <<>> /\ currentProcess = 0 /\ helpers = <<>>
           /\ \A t \in Threads : ~InSupervisor(t)

\* C16: after a successful build the supervisor is asked to restart if and only
\* if the active backend produces a restartable executable (go); for webpack
\* and vite no restart is ever requested, over any sequence of change events.
C16_RestartIffGo ==
    [][C16_RestartStep]_vars /\ []C16_NoRestartForAssets

\* a change event's successful build is followed by the call of restartProcess
C16_Witness ==
    \E t \in Threads :
        th[t].op = "pfc" /\ th[t].pc = "rp_lock" /\ lastBuild.ok /\ active = "go"

\* a change event built by webpack or vite goes on to the fingerprint refresh
C16_AssetsWitness ==
    \E t \in Threads :
        /\ th[t].op = "pfc" /\ th[t].pc = "uc_stat"
        /\ lastBuild.ok /\ lastBuild.path = th[t].path
        /\ active \in {"webpack", "vite"}

(***************************************************************************)
(* Claims about the order of stop and start in restartProcess (SpecProc).  *)
(***************************************************************************)
\* every process the supervisor ever started has exited and been waited for
AllReaped == \A p \in Pids : procs[p].st = "reaped"

\* a caller is at cmd.Start() only when the old process is gone
C20_StartAfterReap ==
    \A t \in Threads : th[t].pc = "rp_start" => AllReaped

\* the launch itself, and the steps of the forced-kill path: Kill is followed by
\* Wait, and Wait returns only for a process that has exited
C20_Steps ==
    /\ Len(procs') > Len(procs)
          => (AllReaped /\ currentProcess' = Len(procs')
              /\ procs'[currentProcess'].st = "running")
    /\ currentProcess' \notin {currentProcess, 0} => Len(procs') > Len(procs)
    /\ \A t \in Threads :
          /\ (th[t].pc = "rp_kill" /\ Steps(t)) => th'[t].pc = "rp_wait"
          /\ (th[t].pc = "rp_wait" /\ Steps(t))
                => (procs[currentProcess].st # "running"
                    /\ procs'[currentProcess].st = "reaped")
          /\ (th[t].pc = "rp_select" /\ th'[t].pc = "rp_start")
                => procs[currentProcess].st = "reaped"

\* C20: in restartProcess the new instance is launched and its handle recorded
\* only after the previously tracked process has exited and been reaped, on
\* the graceful path and on the forced-kill path; the forced-kill path waits
\* for the exit before launching, whatever Kill returned.
C20_LaunchOnlyAfterReap ==
    []C20_StartAfterReap /\ [][C20_Steps]_vars

\* a second instance runs after the first one was killed at the end of the
\* grace period and waited for
C20_Witness ==
    /\ Len(procs) = 2
    /\ procs[1] = [st |-> "reaped", sig |-> "kill"]
    /\ procs[2].st = "running" /\ currentProcess = 2
    /\ \E t \in Threads : th[t].op = "restart" /\ th[t].branch = "timeout"
                          /\ th[t].pc = "rp_unlock"

\* a second instance runs after the first one stopped within the grace period
C20_GracefulWitness ==
    /\ Len(procs) = 2
    /\ procs[1] = [st |-> "reaped", sig |-> "int"]
    /\ procs[2].st = "running" /\ currentProcess = 2
    /\ \E t \in Threads : th[t].op = "restart" /\ th[t].branch = "graceful"
                          /\ th[t].pc = "rp_unlock"

(***************************************************************************)
(* Claims about GetDependents (checked under SpecGraph, on every graph of  *)
(* the bounded universe and every path).                                   *)
(***************************************************************************)
\* an identifier recorded for F equals the path or contains its base name
RecordedMatch(F, file) ==
    \E i \in 1..Len(graph[F]) :
        \/ IdentName(graph[F][i]) = PathName(file)
        \/ Contains(IdentName(graph[F][i]), Base(PathName(file)))

\* GetDependents, as its loops compute it, against the recorded identifiers
C17_Exact ==
    \A file \in Range(FileList) :
        /\ \A r \in GetDependentsByLoops(graph, file) :
              /\ NoDuplicates(r)
              /\ Range(r) = {F \in DOMAIN graph : RecordedMatch(F, file)}
        /\ GetDependentsByLoops(graph, file) = GetDependents(graph, file)

\* C17: GetDependents(path) returns exactly the recorded files one of whose
\* identifiers equals path or matches (contains) the base name of path; a file
\* without such an identifier is never returned and every returned file
\* appears once. (The graph is the same throughout a traversal, so each graph
\* is looked at once, where its traversal starts.)
C17_DependentsExact ==
    [](gAffected = <<>> => C17_Exact) /\ [][graph' = graph]_vars

\* traverse has fetched the dependents of a path, among them a file with two
\* matching identifiers, beside a recorded file that does not match
C17_Witness ==
    /\ gStack # <<>>
    /\ LET top == gStack[Len(gStack)]
       IN /\ top.st = "loop"
          /\ \E F \in Range(top.ds) :
                /\ Len(graph[F]) = 2
                /\ \A i \in 1..2 : Contains(IdentName(graph[F][i]), Base(PathName(top.f)))
          /\ \E G \in DOMAIN graph : G \notin Range(top.ds)

\* a recorded identifier is the very path asked for
C17_EqualPathWitness ==
    /\ gStack # <<>>
    /\ LET top == gStack[Len(gStack)]
       IN /\ top.st = "loop"
          /\ \E F \in Range(top.ds) :
                \E i \in 1..Len(graph[F]) : IdentName(graph[F][i]) = PathName(top.f)

(***************************************************************************)
(* Claims about the loop of the watcher (checked under SpecWatch).         *)
(***************************************************************************)
\* the loop has taken the signal
ShuttingDown == watch.pc \in {"shutdown", "stats", "stopped"}

\* the last report printed
LastOut(w) == IF w.out = <<>> THEN "none" ELSE w.out[Len(w.out)]

\* the steps of the shutdown, in their order
C14_Steps ==
    /\ (watch'.pc = "shutdown" /\ watch.pc # "shutdown")
          => /\ watch.pc = "loop" /\ watch.sig
             /\ mu = 0
             /\ \A t \in Threads : th[t].pc = "idle"
    /\ (watch'.out # watch.out /\ LastOut(watch') = "stats")
          => /\ watch.pc = "shutdown" /\ th[W].op = "shutdown" /\ th[W].pc = "ret"
             /\ currentProcess = 0 /\ Alive = {} /\ processMu = 0
    /\ (watch'.out # watch.out /\ LastOut(watch') = "summary")
          => (LastOut(watch) = "stats" /\ watch'.pc = "stopped")
    /\ ShuttingDown
          => /\ calls' = calls /\ ShuttingDown'
             /\ \A t \in Threads : th'[t].op \in {"none", "shutdown"}

\* once Shutdown has returned nothing is tracked or running, and the loop ends
\* with the statistics and the summary, in that order
C14_AfterShutdown ==
    /\ watch.pc \in {"stats", "stopped"}
          => /\ currentProcess = 0 /\ Alive = {}
             /\ \A t \in Threads : th[t].pc = "idle"
    /\ watch.pc = "stats" => LastOut(watch) = "stats"
    /\ watch.pc = "stopped"
          => /\ Len(watch.out) >= 2
             /\ SubSeq(watch.out, Len(watch.out) - 1, Len(watch.out))
                    = <<"stats", "summary">>
    /\ ~ShuttingDown
          => \A i \in 1..Len(watch.out) : watch.out[i] \in {"tick", "error"}

\* the order alone: whatever is done on a signal is done in the order pipeline,
\* Shutdown, statistics, summary, and no event is processed after Shutdown
C14_ShutdownOrder ==
    [][C14_Steps]_vars /\ []C14_AfterShutdown

\* the program is still there to print the report: no goroutine has panicked
C14_ReportNotPreempted == ShuttingDown => ~panicked

\* C14: on a shutdown signal the loop of the watcher ends in this order: a
\* pipeline in flight runs to its end, then Shutdown stops the supervised
\* process (no handle stays tracked), then the final statistics and the
\* summary are printed; no change event is processed once Shutdown was called.
C14_ShutdownThenReport ==
    [][C14_Steps]_vars /\ []C14_AfterShutdown /\ []C14_ReportNotPreempted

\* the loop has ended after a rebuild and the stop of a running instance
C14_Witness ==
    /\ watch.pc = "stopped"
    /\ dash.totalRebuilds > 0
    /\ procs # <<>> /\ procs[Len(procs)].sig # "none"

\* the signal waits in the channel while a pipeline is inside the backend
C14_PendingWitness ==
    watch.sig /\ watch.pc = "event" /\ th[W].pc = "pfc_build"

\* the event in flight has failed: ProcessFileChange returns an error, or its
\* restart could not start the program
EventFailed ==
    /\ watch.pc = "event" /\ th[W].op = "pfc"
    /\ th[W].result \notin {"none", "ok", "hit"} \/ th[W].rerr

\* the steps that matter after a failure: the loop takes the return of a failed
\* event and is at its select again; it is left through the signal only; and a
\* pipeline whose start failed starts nothing and tracks no other process
C15_Steps ==
    /\ (EventFailed /\ watch'.pc # "event") => (watch'.pc = "loop" /\ ~panicked')
    /\ (watch.pc \in {"loop", "event"} /\ watch'.pc \notin {"loop", "event"})
          => (watch.pc = "loop" /\ watch.sig /\ watch'.pc = "shutdown")
    /\ \A t \in Threads :
          (th[t].op = "pfc" /\ th[t].rerr /\ Steps(t))
              => (procs' = procs /\ currentProcess' = currentProcess)

\* at the select an event is always taken by ProcessFileChange, whatever
\* failed before; and after a failed start no instance is alive
C15_LoopGoesOn ==
    /\ (watch.pc = "loop" /\ ~panicked /\ calls < MaxCalls)
          => \A f \in Files : ENABLED WEvent(f)
    /\ \A t \in Threads :
          (th[t].op = "pfc" /\ th[t].rerr) => (Alive = {} /\ AllReaped)

\* C15: a failed pipeline (I/O error, build failure, failure to start the
\* program) never stops the loop of the watcher: every later event is still
\* handed to ProcessFileChange; and after a failed start the previous instance
\* stays terminated and is not started again by that event.
C15_FailureKeepsWatching ==
    [][C15_Steps]_vars /\ []C15_LoopGoesOn

\* an event is in the pipeline after an earlier event returned an error and
\* after a start of the program failed (the tracked handle is a reaped process)
C15_Witness ==
    /\ watch.pc = "event" /\ th[W].pc = "pfc_analyze"
    /\ \E i \in 1..Len(watch.out) : watch.out[i] = "error"
    /\ currentProcess # 0 /\ procs[currentProcess].st = "reaped"

\* the start has just failed after the old instance was stopped
C15_FailedStartWitness ==
    /\ watch.pc = "event" /\ th[W].rerr /\ th[W].pc = "rp_unlock"
    /\ procs # <<>> /\ AllReaped

(***************************************************************************)
(* Claims about the statistics snapshot (checked under SpecStats).         *)
(***************************************************************************)
\* every value GetStats returned still reads as it did when it was returned,
\* or as its holder last wrote it
C18_SnapshotsStable ==
    \A i \in 1..Len(snaps) : View(snaps[i]) = snaps[i].got

\* GetStats returns the values of the ledger and changes nothing; a holder
\* writing into its value leaves the ledger and the other values alone
C18_Steps ==
    /\ Len(snaps') > Len(snaps)
          => /\ View(snaps[Len(snaps)])' = stats
             /\ stats' = stats
    /\ (Len(snaps') = Len(snaps) /\ snaps' # snaps)
          => /\ stats' = stats
             /\ \A i \in 1..Len(snaps) :
                   snaps'[i] = snaps[i] => View(snaps[i])' = View(snaps[i])

\* C18: a statistics snapshot returned by GetStats is a defensive copy: no
\* later write of the coordinator (counters, per-file times) changes a value
\* of a snapshot already returned, and changing the snapshot does not change
\* the ledger.
C18_DefensiveCopy ==
    []C18_SnapshotsStable /\ [][C18_Steps]_vars

\* the coordinator has counted and timed a rebuild after a snapshot was taken,
\* and the holder of another snapshot has written into it
C18_Witness ==
    /\ Len(snaps) = 2
    /\ snaps[1].got.TotalRebuilds < stats.TotalRebuilds
    /\ DOMAIN snaps[1].got.ModuleRebuildTime # DOMAIN stats.ModuleRebuildTime
    /\ \E f \in DOMAIN snaps[2].got.ModuleRebuildTime :
          f \notin DOMAIN stats.ModuleRebuildTime
             \/ stats.ModuleRebuildTime[f] # snaps[2].got.ModuleRebuildTime[f]

(***************************************************************************)
(* Claims about status queries while a rebuild runs.                       *)
(***************************************************************************)
\* a pipeline is inside the call of the build backend or waits out the grace
\* period of a restart
InFullRebuild ==
    \E t \in Threads : th[t].op = "pfc" /\ th[t].pc \in {"pfc_build", "rp_select"}

\* C19: a status query (statistics read, periodic summary report) never
\* blocks on a full rebuild: while a pipeline is inside the build backend or
\* the grace-period wait of a restart, the statistics can be read and the
\* periodic summary can be printed without waiting for the pipeline.
C19_StatusNeverWaits ==
    (InFullRebuild /\ ~panicked)
        => /\ Len(snaps) < MaxSnaps => ENABLED GetStats
           /\ watch.ticks < MaxTicks => ENABLED WTick

\* what holds: no lock of the pipeline stands in the way of a reader of the
\* statistics in another goroutine
C19_ReadersNeverWait ==
    (InFullRebuild /\ ~panicked /\ Len(snaps) < MaxSnaps) => ENABLED GetStats

(***************************************************************************)
(* Claims about a change event answered from the cache (checked under Spec).*)
(***************************************************************************)
\* thread t is between the taking of o.mu and the decision on the result of
\* IsValid
Checking(t) ==
    th[t].op = "pfc" /\ th[t].pc \in {"iv_get", "iv_stat", "iv_hash", "pfc_decide"}

\* the step by which thread t answers its change event with a cache hit
HitStep(t) ==
    /\ th[t].op = "pfc" /\ th[t].pc = "pfc_decide"
    /\ th'[t].pc = "ret" /\ th'[t].result = "hit"

\* what a cache hit must leave alone
HitFrame ==
    /\ entries' = entries
    /\ graph' = graph
    /\ stats'.CacheMisses = stats.CacheMisses
    /\ stats'.TotalRebuilds = stats.TotalRebuilds
    /\ stats'.LastRebuildTime = stats.LastRebuildTime
    /\ stats'.ModuleRebuildTime = stats.ModuleRebuildTime
    /\ dash'.totalRebuilds = dash.totalRebuilds
    /\ dash'.totalAffected = dash.totalAffected
    /\ <<processMu, currentProcess, procs, helpers>>' =
           <<processMu, currentProcess, procs, helpers>>
    /\ nBuilds' = nBuilds
    /\ lastBuild' = lastBuild
    /\ lastInval' = lastInval

C21_Steps ==
    \A t \in Threads :
        /\ HitStep(t) =>
              /\ th[t].valid /\ ~th[t].ioerr
              /\ stats'.CacheHits = stats.CacheHits + 1
              /\ dash'.totalCacheHits = dash.totalCacheHits + 1
              /\ dash'.events = Append(dash.events,
                                       [FilePath |-> th[t].path, AffectedCount |-> 0,
                                        EventType |-> "CacheHitEvent"])
              /\ HitFrame
              /\ mu = t /\ mu' = 0
              \* the scanner and the backend were not reached by this pipeline
              /\ th[t].deps = <<>> /\ th[t].affected = <<>>
        \* the check that precedes the hit writes nothing either
        /\ (Checking(t) /\ Steps(t) /\ ~HitStep(t) /\ th'[t].pc # "pfc_analyze") =>
              /\ HitFrame
              /\ stats' = stats /\ dash' = dash
        \* a result of "hit" is only ever set by the hit step
        /\ (th'[t].result = "hit" /\ th[t].result # "hit") => HitStep(t)

\* C21: a change event answered with a cache hit increments the hit counter
\* by exactly one, emits one cache-hit notification and leaves everything else
\* unchanged: the fingerprint store, the dependency graph, the miss and
\* rebuild counters and the supervised process are untouched, and neither the
\* import scanner nor the build backend is invoked.
C21_HitChangesOnlyHitCounters == [][C21_Steps]_vars

\* a pipeline has answered with a hit and both hit counters stand at one
C21_Witness ==
    \E t \in Threads :
        /\ th[t].op = "pfc" /\ th[t].pc = "ret" /\ th[t].result = "hit"
        /\ stats.CacheHits = 1 /\ dash.totalCacheHits = 1
        /\ Len(dash.events) = 2
        /\ dash.events[2].EventType = "CacheHitEvent"
        /\ stats.TotalRebuilds = 1

(***************************************************************************)
(* Claims about the per-file durations of the ledger (checked under Spec). *)
(***************************************************************************)
\* the files whose pipeline completed successfully: one rebuild event each time
RebuiltFiles ==
    {dash.events[i].FilePath :
        i \in {j \in 1..Len(dash.events) : dash.events[j].EventType = "RebuildEvent"}}

\* C22: after every pipeline on path P that completes successfully, the
\* per-file last-duration mapping of the ledger contains an entry for P, so
\* the set of keys of that mapping equals the set of distinct files ever
\* rebuilt.
C22_DurationPerRebuiltFile ==
    /\ \A t \in Threads :
          (th[t].op = "pfc" /\ th[t].pc = "ret" /\ th[t].result = "ok")
              => th[t].path \in DOMAIN stats.ModuleRebuildTime
    /\ DOMAIN stats.ModuleRebuildTime = RebuiltFiles

\* what the pipeline does: it never writes the mapping
C22_MappingStaysEmpty == stats.ModuleRebuildTime = <<>>

\* a pipeline has completed successfully
C22_RebuiltWitness ==
    \E t \in Threads : th[t].op = "pfc" /\ th[t].pc = "ret" /\ th[t].result = "ok"

(***************************************************************************)
(* Claims about the events the dashboard retains (checked under SpecDash). *)
(***************************************************************************)
\* the last k elements of s, or all of s when it has fewer
LastOf(s, k) == IF Len(s) > k THEN SubSeq(s, Len(s) - k + 1, Len(s)) ELSE s

\* s holds the elements of r in reverse order
IsReverse(s, r) == Len(s) = Len(r) /\ \A i \in 1..Len(s) : s[i] = r[Len(r) + 1 - i]

C23_Retained ==
    /\ Len(dash.events) <= 50
    /\ dash.events = LastOf(arrived, 50)
    /\ Len(PrintSummary(dash)) <= 10
    /\ IsReverse(PrintSummary(dash), LastOf(arrived, 10))

\* what a call of PrintSummary lists is what the dashboard held at the call
C23_SummaryStep ==
    summary' # summary =>
        /\ Len(summary') <= 10
        /\ IsReverse(summary', LastOf(arrived, 10))

\* C23: after any sequence of rebuild and cache-hit events, the reporter
\* retains at most 50 events and they are exactly the most recent min(n, 50)
\* events in arrival order; a summary lists at most the 10 most recent of
\* them.
C23_RecentEventsRetained == []C23_Retained /\ [][C23_SummaryStep]_vars

\* more than 50 events have arrived, a cache hit among those dropped, and a
\* summary was printed after the trimming began
C23_Witness ==
    /\ Len(arrived) = 53
    /\ Len(dash.events) = 50
    /\ arrived[2].EventType = "CacheHitEvent"
    /\ Len(summary) = 10
    /\ dash.totalCacheHits = 1

\* a summary of fewer than ten events, the cache hit listed first
C23_ShortSummaryWitness ==
    /\ Len(arrived) = 3
    /\ Len(summary) = 3
    /\ summary[1].EventType = "CacheHitEvent"

(***************************************************************************)
(* Claims about the helper goroutines of the supervisor (checked under     *)
(* SpecProc).                                                              *)
(***************************************************************************)
\* C24: the helper goroutine that restartProcess or Shutdown spawns to wait
\* for the exit always waits on the process being stopped: under every
\* interleaving (the goroutine first running after the grace period is over
\* and the tracked handle was replaced or cleared included) it never reads a
\* replacement handle or a nil handle.
C24_HelperWaitsOnStopped ==
    \A h \in 1..Len(helpers) :
        helpers[h].pc # "start" =>
            /\ helpers[h].pc # "panic"
            /\ helpers[h].proc = helpers[h].target

\* a helper that read the handle of the replacement
C24_ReplacementReadWitness ==
    \E h \in 1..Len(helpers) :
        /\ helpers[h].pc = "wait"
        /\ helpers[h].proc # helpers[h].target

\* a helper that read nil
C24_NilReadWitness ==
    \E h \in 1..Len(helpers) : helpers[h].pc = "panic" /\ currentProcess = 0

\* what holds: a helper that reads the handle before its spawner leaves the
\* select reads the process being stopped
C24_ReadInTimeIsRight ==
    [][\A h \in 1..Len(helpers) :
          (/\ helpers[h].pc = "start" /\ helpers'[h].pc # "start"
           /\ th[helpers[h].owner].pc = "rp_select"
           /\ th[helpers[h].owner].helper = h)
              => helpers'[h].pc = "wait" /\ helpers'[h].proc = helpers[h].target]_vars


\* the goroutine that spawned helper h is still at the select that receives
\* from the helper's channel
Receiving(h) ==
    LET t == helpers[h].owner
    IN th[t].pc = "rp_select" /\ th[t].helper = h

\* helper h is blocked sending on a channel nobody will ever receive from
Orphaned(h) == helpers[h].pc = "send" /\ ~Receiving(h)

\* C25: every helper goroutine spawned by restartProcess or Shutdown to wait
\* for the exit eventually terminates, on the graceful path and on the path
\* of the timeout and the kill alike: none stays blocked for ever sending its
\* result on the channel done.
C25_NoHelperBlockedForever == \A h \in 1..Len(helpers) : ~Orphaned(h)

\* an orphaned helper stays where it is whatever happens next, and a select
\* that was left is not entered again for the same channel
C25_OrphanStaysBlocked ==
    [][\A h \in 1..Len(helpers) :
          /\ Orphaned(h) => Orphaned(h)'
          /\ (~Receiving(h) /\ helpers[h].pc # "done") => ~Receiving(h)']_vars

\* what holds: on the graceful path the helper terminates
C25_GracefulHelperDone ==
    [][\A t \in Threads :
          (th[t].pc = "rp_select" /\ th'[t].branch = "graceful")
              => helpers'[th[t].helper].pc = "done"]_vars

\* a helper left behind by a spawner that has returned
C25_LeakWitness ==
    \E h \in 1..Len(helpers) : Orphaned(h) /\ th[helpers[h].owner].pc = "idle"

(***************************************************************************)
(* Claims about Shutdown beside running pipelines (checked under           *)
(* SpecShutdown).                                                          *)
(***************************************************************************)
\* no call of ProcessFileChange is in flight
NoPipelineInFlight ==
    \A t \in Threads : th[t].op = "pfc" => th[t].pc = "ret"

\* C26: when Shutdown runs concurrently with calls of ProcessFileChange, then
\* once Shutdown has returned and every call of ProcessFileChange in flight
\* has returned, no supervised process is tracked or left running: a pipeline
\* never launches a new instance after Shutdown completed.
C26_NothingRunsAfterShutdown ==
    (ShutdownReturned /\ NoPipelineInFlight /\ ~panicked)
        => currentProcess = 0 /\ Alive = {}

\* Shutdown has returned, the pipeline that was in the build meanwhile has
\* returned, and the instance it started runs
C26_StartedAfterShutdownWitness ==
    /\ ShutdownReturned /\ NoPipelineInFlight /\ ~panicked
    /\ currentProcess # 0 /\ currentProcess \in Alive
    /\ \E t \in Threads : th[t].op = "pfc" /\ th[t].pc = "ret" /\ th[t].result = "ok"

\* what holds: when Shutdown returns, nothing is tracked, and the process it
\* found was reaped
C26_CleanAtReturn ==
    [][\A t \in Threads :
          (th[t].op = "shutdown" /\ th[t].pc = "rp_unlock" /\ th'[t].pc = "ret")
              => currentProcess = 0 /\ Alive = {}]_vars

(***************************************************************************)
(* Claims about calls that never return (checked under SpecShutdown).      *)
(***************************************************************************)
\* goroutine t is inside a call of ProcessFileChange or Shutdown
InFlight(t) == th[t].pc \notin {"idle", "ret"}

\* the steps goroutine t takes inside its call
ThreadSteps(t) ==
    \/ PfcLock(t) \/ IvGet(t) \/ IvStat(t) \/ IvHash(t) \/ PfcDecide(t)
    \/ PfcAnalyze(t) \/ PfcBuild(t)
    \/ RpLock(t) \/ RpCheck(t) \/ RpSelectDone(t) \/ RpSelectTimeout(t)
    \/ RpKill(t) \/ RpWait(t) \/ RpStartOk(t) \/ RpStartFail(t) \/ SdClear(t)
    \/ RpUnlock(t)
    \/ UcStat(t) \/ UcHash(t) \/ PfcFinish(t)

\* a killed process that has yet to exit
KilledRunning(p) == procs[p].st = "running" /\ procs[p].sig = "kill"

\* some call in flight can take its next step, or waits for a killed process
\* that is about to exit
SomeCallMoves ==
    /\ ~panicked
    /\ \/ \E t \in Threads : InFlight(t) /\ ENABLED ThreadSteps(t)
       \/ \E p \in Pids : KilledRunning(p)

\* C27: no interleaving of concurrent ProcessFileChange, Shutdown, GetStats,
\* PrintStats and PrintSummary calls deadlocks: given that the build backend
\* returns and a killed process exits, every call eventually returns. In the
\* form a finite run refutes: whenever a call is in flight, some call in
\* flight can take a step towards its return.
C27_NoCallStuck == (\E t \in Threads : InFlight(t)) => SomeCallMoves

\* what holds: as long as no goroutine has panicked, the calls in flight are
\* never all blocked, so no set of them waits in a cycle for o.mu and
\* o.processMu
C27_NoLockCycle ==
    ((\E t \in Threads : InFlight(t)) /\ ~panicked) => SomeCallMoves

\* every lock that is held is held by a call in flight, and o.processMu is
\* asked for only by a pipeline that holds o.mu or by Shutdown, which holds
\* nothing
C27_LockOrder ==
    /\ mu # 0 => InFlight(mu) /\ th[mu].op = "pfc"
    /\ processMu # 0 => InFlight(processMu)
    /\ \A t \in Threads :
          th[t].pc = "rp_lock" => (th[t].op = "pfc" => mu = t) /\ processMu # t
          
\* Shutdown is in flight, holding o.processMu, in a program that panicked
C27_StuckWitness ==
    \E t \in Threads :
        /\ th[t].op = "shutdown" /\ InFlight(t) /\ processMu = t
        /\ panicked
        /\ \E u \in Threads : th[u].op = "pfc" /\ th[u].pc = "rp_lock"

(***************************************************************************)
(* Claims about the counters of the ledger and the dashboard (checked      *)
(* under Spec).                                                            *)
(***************************************************************************)
\* no call of ProcessFileChange is between its Lock and its return
Quiescent == \A t \in Threads : ~InPipeline(t)

C28_Consistent ==
    Quiescent =>
        /\ stats.TotalRebuilds = stats.CacheMisses
        /\ stats.CacheHits = dash.totalCacheHits
        /\ dash.totalRebuilds = stats.TotalRebuilds - aborted

C28_NoDecrease ==
    /\ stats'.TotalRebuilds >= stats.TotalRebuilds
    /\ stats'.CacheMisses >= stats.CacheMisses
    /\ stats'.CacheHits >= stats.CacheHits
    /\ dash'.totalRebuilds >= dash.totalRebuilds
    /\ dash'.totalCacheHits >= dash.totalCacheHits
    /\ dash'.totalAffected >= dash.totalAffected

\* C28: whenever no pipeline is in flight, the counters are consistent: the
\* ledger's TotalRebuilds equals its CacheMisses, its CacheHits equals the
\* dashboard's cache-hit total, and the dashboard's rebuild total equals
\* TotalRebuilds minus the number of pipelines that aborted with an error
\* after recording a miss; no counter ever decreases.
C28_CountersConsistent == []C28_Consistent /\ [][C28_NoDecrease]_vars

\* at rest after one pipeline that aborted after its miss and one that
\* completed
C28_Witness ==
    /\ Quiescent
    /\ aborted = 1
    /\ stats.TotalRebuilds = 2 /\ stats.CacheMisses = 2
    /\ dash.totalRebuilds = 1

\* at rest after a rebuild and a cache hit
C28_HitWitness ==
    /\ Quiescent
    /\ stats.CacheHits = 1 /\ dash.totalCacheHits = 1
    /\ stats.TotalRebuilds = 1 /\ dash.totalRebuilds = 1 /\ aborted = 0

================================================================================
